---- MODULE Spec2Model ----
(***************************************************************************)
(* The attested transport of tinfoil-go: SecureClient (client.go), the     *)
(* certificate-pinned transport it hands out, and reVerifyingTransport     *)
(* (tinfoil_client.go), which re-verifies the enclave when a request fails *)
(* with a certificate error and retries the request once.                  *)
(***************************************************************************)
EXTENDS Integers, Sequences, FiniteSets, TLC

(* ---------------------------- bounds ----------------------------------- *)
NumCalls == 2          \* calls over a behaviour, each by a goroutine of its own
NumCerts == 2          \* distinct TLS leaf certificates
MaxRotations == 1      \* certificate rotations (and publications) over a behaviour
NumReleases == 2       \* distinct published releases
MaxChain == 2          \* certificates in the chain a server presents
MaxPool == 3           \* clients of a LoadBalancer
MaxPicks == 6          \* NextClient calls over a behaviour
MaxVerifies == 2       \* Verify calls made one after the other
MaxLines == 3          \* lines of a server-sent event stream
MaxRequests == 2       \* requests initialised through the FFI functions
MaxTime == 2           \* readings of the wall clock: 1..MaxTime
CounterBits == 4       \* width of the LoadBalancer counter (uint64 in the code)

Procs == 1..NumCalls
Certs == 1..NumCerts
Releases == 1..NumReleases

(* ------------------------- values -------------------------------------- *)
\* a nil pointer / nil interface value
Nil == [nil |-> TRUE]

\* sha256.Sum256(rawCerts[0]): an injective digest of the certificate
Sum256(cert) == <<cert \div 16, cert % 16>>

\* the digest of release r
DigestOf(r) == <<"sha256", r>>

\* codeMeasurements.Fingerprint() of the release with the given digest
MeasurementOf(digest) == <<"measurement", digest>>

\* the Client's own secureClient (the argument of createClientFromSecureClient)
ClientSC == 1
\* a SecureClient the caller holds directly (NewSecureClientWithParams)
UserSC == 2
\* the SecureClient the recovery of goroutine t constructs
NewScId(t) == 2 + t
\* SecureClient objects: the two above and one per rotation recovery
ScIds == 1..(2 + NumCalls)

\* what the application holds: a Client (NewClientWithParams), whose requests
\* go through reVerifyingTransport, or a SecureClient it calls directly
Uses == {"Client", "SecureClient"}

ClientEnclave == "inference.tinfoil.sh"
ClientRepo == "tinfoilsh/confidential-inference-proxy"

\* a GroundTruth published before its Measurement is filled in
GroundTruth_Partial(fp, digest, measurement) ==
    [PublicKeyFP |-> fp, Digest |-> digest, Measurement |-> <<>>]

GroundTruth(fp, digest, measurement) ==
    [PublicKeyFP |-> fp, Digest |-> digest, Measurement |-> measurement]

NewSecureClientWithParams(enclave, repo) ==
    [enclave |-> enclave, repo |-> repo, groundTruth |-> Nil]

TLSBoundRoundTripper(fp, sc) == [ExpectedPublicKey |-> fp, builtBy |-> sc]

VARIABLES
    uses,         \* what the application holds
    release,      \* the latest published release of the repository
    publications, \* number of publications so far
    presented,    \* certificate the enclave host presents on a handshake
    attested,     \* certificate bound into the attestation the host serves
    rotations,    \* number of rotations so far
    heap,         \* SecureClient objects by id (Nil: not allocated)
    rt,           \* the reVerifyingTransport: secureClient, transport
    mu,           \* rt.mu: readers and writer (0: none)
    th,           \* per goroutine: position and locals of the running call
    verified,     \* fingerprints of the GroundTruths of successful verifications
    swapped,      \* some RoundTrip has completed a swap of rt.transport
    faulted,      \* some round trip failed for a reason other than the pin
    hs,           \* TLS handshakes of the pinned transport of createOpenAIClient
    lb,           \* the LoadBalancer: clients, counter
    nc,           \* per goroutine: position and locals of NextClient
    picks,        \* the clients NextClient has returned, in order of return
    client,       \* the call of the Client constructor and what it returned
    ctor,         \* a running NewLoadBalancer: its input, progress and result
    failed,       \* members of the pool through which a request has failed
    req,          \* a request handed to makeRequest and what was sent
    vlog,         \* the Verify calls made one after the other on a SecureClient
    vrun,         \* one Verify call advancing stage by stage
    ws,           \* a WebSearchStream and the events its consumer was given
    store,        \* globalRequestStore.requests
    now,          \* what time.Now().UnixNano() returns
    ffi           \* callers of the FFI functions and the value last returned

vars == <<uses, release, publications, presented, attested, rotations, heap, rt, mu, th, verified, swapped,
          faulted, hs, lb, nc, picks, client, ctor, failed, req, vlog, vrun,
          ws, store, now, ffi>>

auxVars == <<client, ctor, failed, req, vlog, vrun, ws, store, now, ffi>>

\* the variables of the Client, its SecureClients and their environment
coreVars == <<uses, release, publications, presented, attested, rotations,
              heap, rt, mu, th, verified, swapped, faulted>>

pinVars == <<hs>>

lbVars == <<lb, nc, picks>>

envVars == <<uses, release, publications, presented, attested, rotations>>

\* the digest github.FetchLatestDigest returns for the repository
LatestDigest == DigestOf(release)

(* ------------------- certificate pinning ------------------------------- *)
RECURSIVE equalBytesFrom(_, _, _)
equalBytesFrom(a, b, i) ==
    IF i > Len(a) THEN TRUE
    ELSE IF a[i] # b[i] THEN FALSE
    ELSE equalBytesFrom(a, b, i + 1)

equalBytes(a, b) ==
    IF Len(a) # Len(b) THEN FALSE ELSE equalBytesFrom(a, b, 1)

\* VerifyPeerCertificate without the comparison of the fingerprint
VerifyPeerCertificate_NoCompare(expected, rawCerts) ==
    IF Len(rawCerts) = 0 THEN "no certificate found" ELSE "nil"

\* VerifyPeerCertificate: "nil" accepts the handshake
VerifyPeerCertificate(expected, rawCerts) ==
    IF Len(rawCerts) = 0 THEN "no certificate found"
    ELSE IF ~equalBytes(Sum256(rawCerts[1]), expected) THEN "ErrCertMismatch"
    ELSE "nil"

\* the handshake of a connection made under the tls.Config of
\* createOpenAIClient, which sets VerifyPeerCertificate and leaves
\* InsecureSkipVerify false: crypto/tls verifies the chain against the root
\* CAs and the server name first, aborts when that fails, and calls
\* VerifyPeerCertificate only afterwards
ClientHandshake(expected, rawCerts, caTrusted) ==
    IF ~caTrusted THEN "UnknownAuthorityError"
    ELSE VerifyPeerCertificate(expected, rawCerts)

\* a transport that looks the fingerprint up in its SecureClient on every
\* handshake
ExpectedPublicKey_Live(transport) ==
    heap[transport.builtBy].groundTruth.PublicKeyFP

\* the fingerprint a transport checks a handshake against: the field
\* ExpectedPublicKey, a copy of the string s.groundTruth.PublicKeyFP made
\* when the transport was built
ExpectedPublicKey(transport) == transport.ExpectedPublicKey

\* failures of a connection that do not come from the pin
Faults == {"none", "other", "ErrNoTLS"}

\* one round trip through a pinned transport over a connection on which
\* the host presents rawCerts
PinnedRoundTrip(transport, rawCerts, fault) ==
    IF fault # "none" THEN [resp |-> Nil, err |-> fault]
    ELSE LET e == VerifyPeerCertificate(ExpectedPublicKey(transport), rawCerts)
         IN IF e # "nil" THEN [resp |-> Nil, err |-> e]
            ELSE [resp |-> [servedBy |-> rawCerts[1]], err |-> "nil"]

isCertificateError(err) ==
    \/ err = "ErrNoTLS"
    \/ err = "ErrCertMismatch"
    \/ err = "CertificateInvalidError"
    \/ err = "UnknownAuthorityError"
    \/ err = "HostnameError"
    \/ err = "CertificateVerificationError"

(* ------------------- SecureClient.Verify ------------------------------- *)
\* s.GroundTruth(): return s.groundTruth
SecureClient_GroundTruth(s) == heap[s].groundTruth

\* the stage of Verify that fails (0: none), in the order of the code
NumStages == 7
StageError(stage) ==
    CASE stage = 1 -> "failed to fetch latest release"
      [] stage = 2 -> "failed to fetch attestation bundle"
      [] stage = 3 -> "failed to fetch trust root"
      [] stage = 4 -> "failed to verify attested measurements"
      [] stage = 5 -> "failed to fetch enclave measurements"
      [] stage = 6 -> "failed to verify enclave measurements"
      [] stage = 7 -> "measurement mismatch"
      [] OTHER -> "nil"

\* Verify clearing the cache when a stage fails
Verify_ClearsCache(cached, failStage, cert, digest) ==
    IF failStage \in 1..7
    THEN [groundTruth |-> Nil, gt |-> Nil, err |-> StageError(failStage)]
    ELSE LET new == GroundTruth(Sum256(cert), digest, MeasurementOf(digest))
         IN [groundTruth |-> new, gt |-> new, err |-> "nil"]

\* Verify with a result that depends on the cache it finds
Verify_CacheDependent(cached, failStage, cert, digest) ==
    IF failStage \in 1..6
    THEN [groundTruth |-> cached, gt |-> Nil, err |-> StageError(failStage)]
    ELSE IF failStage = 7
    THEN [groundTruth |-> cached, gt |-> cached, err |-> StageError(failStage)]
    ELSE LET new == GroundTruth(Sum256(cert), digest,
                                IF cached = Nil THEN MeasurementOf(digest)
                                ELSE MeasurementOf(DigestOf(0)))
         IN [groundTruth |-> new, gt |-> new, err |-> "nil"]

\* Verify on a SecureClient whose cache holds cached, when the oracle's
\* round trip fails at stage failStage (0: it succeeds) and otherwise yields
\* the certificate cert and the release digest: the new cache and the
\* returned pair
Verify(cached, failStage, cert, digest) ==
    IF failStage \in 1..6
    THEN [groundTruth |-> cached, gt |-> Nil, err |-> StageError(failStage)]
    ELSE IF failStage = 7
    THEN [groundTruth |-> cached, gt |-> cached, err |-> StageError(failStage)]
    ELSE LET new == GroundTruth(Sum256(cert), digest, MeasurementOf(digest))
         IN [groundTruth |-> new, gt |-> new, err |-> "nil"]

(* ------------------------- initial state ------------------------------- *)
NoRet == [resp |-> Nil, gt |-> Nil, client |-> Nil, err |-> "nil"]

\* pc: position; op: the running call; s: the SecureClient HTTPClient/Verify
\* run on; transport, err, http: the locals transport, err and
\* newHTTPClient.Transport; ret: the returned values;
\* attempts, verifs: round trips and verifications of the call so far;
\* afterSwap: a swap had completed when the call started
Idle == [pc |-> "idle", op |-> "none", s |-> 0, transport |-> Nil,
         err |-> "nil", http |-> Nil, ret |-> NoRet,
         attempts |-> 0, verifs |-> 0, afterSwap |-> FALSE]

\* createClientFromSecureClient has verified ClientSC and wrapped its
\* transport; UserSC is freshly constructed
ClientInit ==
    /\ uses \in Uses
    /\ release = 1
    /\ publications = 0
    /\ presented = 1
    /\ attested = 1
    /\ rotations = 0
    /\ heap = [i \in ScIds |->
                IF i = ClientSC
                THEN [enclave |-> ClientEnclave, repo |-> ClientRepo,
                      groundTruth |-> GroundTruth(Sum256(1), LatestDigest,
                                                 MeasurementOf(LatestDigest))]
                ELSE IF i = UserSC
                THEN NewSecureClientWithParams(ClientEnclave, ClientRepo)
                ELSE Nil]
    /\ rt = [secureClient |-> ClientSC,
             transport |-> TLSBoundRoundTripper(Sum256(1), ClientSC)]
    /\ mu = [readers |-> {}, writer |-> 0]
    /\ th = [t \in Procs |-> Idle]
    /\ verified = {Sum256(1)}
    /\ swapped = FALSE
    /\ faulted = FALSE

\* the two connections whose handshakes are compared
Conns == 1..2

\* a connection before its handshake: the chain the server presents and
\* whether crypto/tls finds it valid for the server name under the root CAs
Conn(rawCerts, caTrusted) ==
    [rawCerts |-> rawCerts, caTrusted |-> caTrusted, done |-> FALSE,
     err |-> "nil", sent |-> FALSE]

\* no pinned client of createOpenAIClient exists
NoHandshakes ==
    [CertFingerprint |-> <<>>, conn |-> [i \in Conns |-> Conn(<<>>, FALSE)]]

\* no LoadBalancer exists
NoLoadBalancer == [clients |-> <<>>, counter |-> 0]

NextClientIdle == [pc |-> "idle", count |-> 0]

\* &Client{secureClient: ..., enclave: secureClient.Enclave(),
\* repo: secureClient.Repo()}
NewClient(sc, enclave, repo) ==
    [secureClient |-> sc, enclave |-> enclave, repo |-> repo]

\* NewClientWithParams is called; the verification it runs will meet
\* failStage
ConstructorCall(failStage) ==
    [pc |-> "called", failStage |-> failStage, ptr |-> Nil, err |-> "nil"]

\* the constructor has returned (ptr, err)
ConstructorReturn(call, ptr, err) ==
    [call EXCEPT !.pc = "returned", !.ptr = ptr, !.err = err]

\* the components named in inUse apart, nothing else of the package is in
\* use: the Client is the one createClientFromSecureClient returned for
\* ClientSC, no pool is under construction, no request, stream or Verify
\* call is under way and the request store is empty
Quiet(inUse) ==
    /\ IF "client" \in inUse THEN TRUE
       ELSE client = ConstructorReturn(
                         ConstructorCall(0),
                         NewClient(ClientSC, ClientEnclave, ClientRepo), "nil")
    /\ IF "ctor" \in inUse THEN TRUE ELSE ctor = Nil
    /\ IF "failed" \in inUse THEN TRUE ELSE failed = {}
    /\ IF "req" \in inUse THEN TRUE ELSE req = Nil
    /\ IF "vlog" \in inUse THEN TRUE ELSE vlog = <<>>
    /\ IF "vrun" \in inUse THEN TRUE ELSE vrun = Nil
    /\ IF "ws" \in inUse THEN TRUE ELSE ws = Nil
    /\ IF "ffi" \in inUse THEN TRUE
       ELSE store = <<>> /\ now = 0 /\ ffi = Nil

\* the application holds the Client
Init ==
    /\ ClientInit
    /\ uses = "Client"
    /\ hs = NoHandshakes
    /\ lb = NoLoadBalancer
    /\ nc = [t \in Procs |-> NextClientIdle]
    /\ picks = <<>>
    /\ Quiet({})

\* the Client and its environment at rest, no pinned client of
\* createOpenAIClient and no LoadBalancer in use
CoreInit ==
    /\ ClientInit
    /\ uses = "Client"
    /\ hs = NoHandshakes
    /\ lb = NoLoadBalancer
    /\ nc = [t \in Procs |-> NextClientIdle]
    /\ picks = <<>>

(* ------------------------- environment --------------------------------- *)
\* the host starts presenting certificate c; the attestation it serves is
\* bound to c (a legitimate rotation) or stays bound to the previous one
Rotate(c, legitimate) ==
    /\ rotations + publications < MaxRotations
    /\ c # presented
    /\ presented' = c
    /\ attested' = IF legitimate THEN c ELSE attested
    /\ rotations' = rotations + 1
    /\ UNCHANGED <<uses, release, publications, heap, rt, mu, th, verified,
                   swapped, faulted, pinVars, lbVars, auxVars>>

\* the repository publishes release r, which FetchLatestDigest returns from
\* now on; the enclave runs the latest release
Publish(r) ==
    /\ rotations + publications < MaxRotations
    /\ r # release
    /\ release' = r
    /\ publications' = publications + 1
    /\ UNCHANGED <<uses, presented, attested, rotations, heap, rt, mu, th,
                   verified, swapped, faulted, pinVars, lbVars, auxVars>>

(* ------------------- reVerifyingTransport.RoundTrip -------------------- *)
\* the call returns: its locals are gone, the caller has the values
Returned(l, resp, gt, err) ==
    [Idle EXCEPT !.op = l.op, !.attempts = l.attempts, !.verifs = l.verifs,
                 !.afterSwap = l.afterSwap,
                 !.ret = [NoRet EXCEPT !.resp = resp, !.gt = gt, !.err = err]]

\* a caller enters RoundTrip
CallRoundTrip(t) ==
    /\ uses = "Client"
    /\ th[t].pc = "idle"
    /\ th[t].op = "none"
    /\ th' = [th EXCEPT ![t] = [Idle EXCEPT !.pc = "rt_rlock", !.op = "RoundTrip",
                                            !.afterSwap = swapped]]
    /\ UNCHANGED <<envVars, pinVars, lbVars, auxVars, heap, rt, mu, verified, swapped, faulted>>

\* t.mu.RLock()
RLock(t) ==
    /\ th[t].pc = "rt_rlock"
    /\ mu.writer = 0
    /\ mu' = [mu EXCEPT !.readers = @ \cup {t}]
    /\ th' = [th EXCEPT ![t].pc = "rt_read"]
    /\ UNCHANGED <<envVars, pinVars, lbVars, auxVars, heap, rt, verified, swapped, faulted>>

\* transport := t.transport
ReadTransport(t) ==
    /\ th[t].pc = "rt_read"
    /\ th' = [th EXCEPT ![t].pc = "rt_runlock", ![t].transport = rt.transport]
    /\ UNCHANGED <<envVars, pinVars, lbVars, auxVars, heap, rt, mu, verified, swapped, faulted>>

\* RoundTrip keeping the read lock for the round trip
RUnlock_Missing(t) ==
    /\ th[t].pc = "rt_runlock"
    /\ th' = [th EXCEPT ![t].pc = "rt_attempt1"]
    /\ UNCHANGED <<envVars, pinVars, lbVars, auxVars, heap, rt, mu, verified, swapped, faulted>>

\* t.mu.RUnlock()
RUnlock(t) ==
    /\ th[t].pc = "rt_runlock"
    /\ mu' = [mu EXCEPT !.readers = @ \ {t}]
    /\ th' = [th EXCEPT ![t].pc = "rt_attempt1"]
    /\ UNCHANGED <<envVars, pinVars, lbVars, auxVars, heap, rt, verified, swapped, faulted>>

\* RoundTrip recovering from every error of the first attempt
AfterFirstAttempt_AnyError(l, r) ==
    IF r.err = "nil"
    THEN Returned(l, r.resp, Nil, r.err)
    ELSE [l EXCEPT !.pc = "rt_newsc", !.err = r.err, !.transport = Nil]

\* if err == nil || !isCertificateError(err) { return resp, err }
AfterFirstAttempt(l, r) ==
    IF r.err = "nil" \/ ~isCertificateError(r.err)
    THEN Returned(l, r.resp, Nil, r.err)
    ELSE [l EXCEPT !.pc = "rt_newsc", !.err = r.err, !.transport = Nil]

\* resp, err := transport.RoundTrip(req) completes
FirstAttempt(t, fault) ==
    /\ th[t].pc = "rt_attempt1"
    /\ LET r == PinnedRoundTrip(th[t].transport, <<presented>>, fault)
           l == [th[t] EXCEPT !.attempts = @ + 1]
       IN /\ th' = [th EXCEPT ![t] = AfterFirstAttempt(l, r)]
          /\ faulted' = (faulted \/ fault # "none")
    /\ UNCHANGED <<envVars, pinVars, lbVars, auxVars, heap, rt, mu, verified, swapped>>

\* a recovery that constructs the SecureClient with the default parameters
\* of NewSecureClient() instead of those of the current one
NewSecureClient_Default(t) ==
    /\ th[t].pc = "rt_newsc"
    /\ heap' = [heap EXCEPT ![NewScId(t)] =
                  NewSecureClientWithParams(ClientEnclave, ClientRepo)]
    /\ th' = [th EXCEPT ![t].pc = "verifying", ![t].s = NewScId(t)]
    /\ UNCHANGED <<envVars, pinVars, lbVars, auxVars, rt, mu, verified, swapped, faulted>>

\* newSecureClient := client.NewSecureClient(t.secureClient.Enclave(),
\* t.secureClient.Repo()); newSecureClient.HTTPClient() is entered, finds
\* the groundTruth of the new object nil and calls Verify
NewSecureClient(t) ==
    /\ th[t].pc = "rt_newsc"
    /\ heap' = [heap EXCEPT ![NewScId(t)] =
                  NewSecureClientWithParams(heap[rt.secureClient].enclave,
                                            heap[rt.secureClient].repo)]
    /\ th' = [th EXCEPT ![t].pc = "verifying", ![t].s = NewScId(t)]
    /\ UNCHANGED <<envVars, pinVars, lbVars, auxVars, rt, mu, verified, swapped, faulted>>

\* a Lock that does not wait for the readers and the writer to leave
Lock_NoExclusion(t) ==
    /\ th[t].pc = "rt_lock"
    /\ mu' = [mu EXCEPT !.writer = t]
    /\ th' = [th EXCEPT ![t].pc = "rt_set_sc"]
    /\ UNCHANGED <<envVars, pinVars, lbVars, auxVars, heap, rt, verified, swapped, faulted>>

\* t.mu.Lock()
Lock(t) ==
    /\ th[t].pc = "rt_lock"
    /\ mu.writer = 0
    /\ mu.readers = {}
    /\ mu' = [mu EXCEPT !.writer = t]
    /\ th' = [th EXCEPT ![t].pc = "rt_set_sc"]
    /\ UNCHANGED <<envVars, pinVars, lbVars, auxVars, heap, rt, verified, swapped, faulted>>

\* t.secureClient = newSecureClient
SetSecureClient(t) ==
    /\ th[t].pc = "rt_set_sc"
    /\ rt' = [rt EXCEPT !.secureClient = th[t].s]
    /\ th' = [th EXCEPT ![t].pc = "rt_set_tr"]
    /\ UNCHANGED <<envVars, pinVars, lbVars, auxVars, heap, mu, verified, swapped, faulted>>

\* RoundTrip that does not install the new transport
SetTransport_Skipped(t) ==
    /\ th[t].pc = "rt_set_tr"
    /\ th' = [th EXCEPT ![t].pc = "rt_unlock"]
    /\ UNCHANGED <<envVars, pinVars, lbVars, auxVars, heap, rt, mu, verified, swapped, faulted>>

\* t.transport = newHTTPClient.Transport
SetTransport(t) ==
    /\ th[t].pc = "rt_set_tr"
    /\ rt' = [rt EXCEPT !.transport = th[t].http]
    /\ th' = [th EXCEPT ![t].pc = "rt_unlock"]
    /\ UNCHANGED <<envVars, pinVars, lbVars, auxVars, heap, mu, verified, swapped, faulted>>

\* RoundTrip that leaves the critical section without t.mu.Unlock()
Unlock_Missing(t) ==
    /\ th[t].pc = "rt_unlock"
    /\ th' = [th EXCEPT ![t].pc = "rt_retry"]
    /\ swapped' = TRUE
    /\ UNCHANGED <<envVars, pinVars, lbVars, auxVars, heap, rt, mu, verified, faulted>>

\* t.mu.Unlock()
Unlock(t) ==
    /\ th[t].pc = "rt_unlock"
    /\ mu' = [mu EXCEPT !.writer = 0]
    /\ th' = [th EXCEPT ![t].pc = "rt_retry"]
    /\ swapped' = TRUE
    /\ UNCHANGED <<envVars, pinVars, lbVars, auxVars, heap, rt, verified, faulted>>

\* RoundTrip retrying through whatever t.transport holds by now
Retry_ActiveTransport(t, fault) ==
    /\ th[t].pc = "rt_retry"
    /\ LET r == PinnedRoundTrip(rt.transport, <<presented>>, fault)
           l == [th[t] EXCEPT !.attempts = @ + 1]
       IN /\ th' = [th EXCEPT ![t] = Returned(l, r.resp, Nil, r.err)]
          /\ faulted' = (faulted \/ fault # "none")
    /\ UNCHANGED <<envVars, pinVars, lbVars, auxVars, heap, rt, mu, verified, swapped>>

\* return newHTTPClient.Transport.RoundTrip(req)
Retry(t, fault) ==
    /\ th[t].pc = "rt_retry"
    /\ LET r == PinnedRoundTrip(th[t].http, <<presented>>, fault)
           l == [th[t] EXCEPT !.attempts = @ + 1]
       IN /\ th' = [th EXCEPT ![t] = Returned(l, r.resp, Nil, r.err)]
          /\ faulted' = (faulted \/ fault # "none")
    /\ UNCHANGED <<envVars, pinVars, lbVars, auxVars, heap, rt, mu, verified, swapped>>

(* ------------------------- SecureClient -------------------------------- *)
\* a caller enters UserSC.Verify()
CallVerify(t) ==
    /\ uses = "SecureClient"
    /\ th[t].pc = "idle"
    /\ th[t].op = "none"
    /\ th' = [th EXCEPT ![t] = [Idle EXCEPT !.pc = "verifying", !.op = "Verify",
                                            !.s = UserSC]]
    /\ UNCHANGED <<envVars, pinVars, lbVars, auxVars, heap, rt, mu, verified, swapped, faulted>>

\* a caller enters UserSC.HTTPClient()
CallHTTPClient(t) ==
    /\ uses = "SecureClient"
    /\ th[t].pc = "idle"
    /\ th[t].op = "none"
    /\ th' = [th EXCEPT ![t] = [Idle EXCEPT !.pc = "http_check",
                                            !.op = "HTTPClient", !.s = UserSC]]
    /\ UNCHANGED <<envVars, pinVars, lbVars, auxVars, heap, rt, mu, verified, swapped, faulted>>

\* a caller enters UserSC.makeRequest(req) (through Get or Post)
CallMakeRequest(t) ==
    /\ uses = "SecureClient"
    /\ th[t].pc = "idle"
    /\ th[t].op = "none"
    /\ th' = [th EXCEPT ![t] = [Idle EXCEPT !.pc = "http_check",
                                            !.op = "makeRequest", !.s = UserSC]]
    /\ UNCHANGED <<envVars, pinVars, lbVars, auxVars, heap, rt, mu, verified, swapped, faulted>>

\* HTTPClient verifying on every call
HTTPClientCheck_Always(t) ==
    /\ th[t].pc = "http_check"
    /\ th' = [th EXCEPT ![t].pc = "verifying"]
    /\ UNCHANGED <<envVars, pinVars, lbVars, auxVars, heap, rt, mu, verified, swapped, faulted>>

\* HTTPClient: if s.groundTruth == nil { _, err := s.Verify() ...
HTTPClientCheck(t) ==
    /\ th[t].pc = "http_check"
    /\ th' = [th EXCEPT ![t].pc = IF heap[th[t].s].groundTruth = Nil
                                  THEN "verifying" ELSE "http_build"]
    /\ UNCHANGED <<envVars, pinVars, lbVars, auxVars, heap, rt, mu, verified, swapped, faulted>>

\* RoundTrip returning the error of the failed re-verification
AfterVerify_VerifyError(l, v) ==
    LET l1 == [l EXCEPT !.verifs = @ + 1]
    IN CASE l.op = "Verify" -> Returned(l1, Nil, v.gt, v.err)
         [] l.op = "RoundTrip" ->
              IF v.err # "nil" THEN Returned(l1, Nil, Nil, v.err)
              ELSE [l1 EXCEPT !.pc = "rt_lock", !.err = "nil",
                              !.http = TLSBoundRoundTripper(
                                           v.groundTruth.PublicKeyFP, l.s)]
         [] OTHER ->
              IF v.err # "nil"
              THEN Returned(l1, Nil, Nil, "failed to verify enclave")
              ELSE [l1 EXCEPT !.pc = "http_build"]

\* where the call goes on when the Verify it runs has returned v: Verify
\* returns it; HTTPClient gives up or goes on to build the client, which in
\* RoundTrip (on an object no other goroutine has) is built at once and
\* checked by if clientErr != nil { return nil, err }
AfterVerify(l, v) ==
    LET l1 == [l EXCEPT !.verifs = @ + 1]
    IN CASE l.op = "Verify" -> Returned(l1, Nil, v.gt, v.err)
         [] l.op = "RoundTrip" ->
              IF v.err # "nil" THEN Returned(l1, Nil, Nil, l.err)
              ELSE [l1 EXCEPT !.pc = "rt_lock", !.err = "nil",
                              !.http = TLSBoundRoundTripper(
                                           v.groundTruth.PublicKeyFP, l.s)]
         [] OTHER ->
              IF v.err # "nil"
              THEN Returned(l1, Nil, Nil, "failed to verify enclave")
              ELSE [l1 EXCEPT !.pc = "http_build"]

\* a Verify that returns the new GroundTruth without storing it
VerifyReturn_NoStore(t, failStage) ==
    /\ th[t].pc = "verifying"
    /\ LET s == th[t].s
           v == Verify(heap[s].groundTruth, failStage, attested, LatestDigest)
       IN /\ th' = [th EXCEPT ![t] = AfterVerify(th[t], v)]
          /\ verified' = IF v.err = "nil"
                         THEN verified \cup {v.gt.PublicKeyFP} ELSE verified
    /\ UNCHANGED <<envVars, pinVars, lbVars, auxVars, heap, rt, mu, swapped, faulted>>

\* the round trips of s.Verify() complete, failing at stage failStage
\* (0: none); the cache is written on success
VerifyReturn(t, failStage) ==
    /\ th[t].pc = "verifying"
    /\ LET s == th[t].s
           v == Verify(heap[s].groundTruth, failStage, attested, LatestDigest)
       IN /\ heap' = [heap EXCEPT ![s].groundTruth = v.groundTruth]
          /\ th' = [th EXCEPT ![t] = AfterVerify(th[t], v)]
          /\ verified' = IF v.err = "nil"
                         THEN verified \cup {v.gt.PublicKeyFP} ELSE verified
    /\ UNCHANGED <<envVars, pinVars, lbVars, auxVars, rt, mu, swapped, faulted>>

\* HTTPClient pinning the certificate the host presents at the moment
HTTPClientBuild_PresentedKey(t) ==
    /\ th[t].pc = "http_build"
    /\ LET s == th[t].s
           tr == TLSBoundRoundTripper(Sum256(presented), s)
           l == [th[t] EXCEPT !.http = tr]
       IN th' = [th EXCEPT ![t] =
                   IF l.op = "HTTPClient"
                   THEN [Returned(l, Nil, Nil, "nil") EXCEPT !.ret.client = tr]
                   ELSE [l EXCEPT !.pc = "mr_do"]]
    /\ UNCHANGED <<envVars, pinVars, lbVars, auxVars, heap, rt, mu, verified, swapped, faulted>>

\* return &http.Client{Transport: &TLSBoundRoundTripper{ExpectedPublicKey:
\* s.groundTruth.PublicKeyFP}}, nil
HTTPClientBuild(t) ==
    /\ th[t].pc = "http_build"
    /\ LET s == th[t].s
           tr == TLSBoundRoundTripper(heap[s].groundTruth.PublicKeyFP, s)
           l == [th[t] EXCEPT !.http = tr]
       IN th' = [th EXCEPT ![t] =
                   IF l.op = "HTTPClient"
                   THEN [Returned(l, Nil, Nil, "nil") EXCEPT !.ret.client = tr]
                   ELSE [l EXCEPT !.pc = "mr_do"]]
    /\ UNCHANGED <<envVars, pinVars, lbVars, auxVars, heap, rt, mu, verified, swapped, faulted>>

\* makeRequest: resp, err := httpClient.Do(req) completes
MakeRequestDo(t, fault) ==
    /\ th[t].pc = "mr_do"
    /\ LET r == PinnedRoundTrip(th[t].http, <<presented>>, fault)
           l == [th[t] EXCEPT !.attempts = @ + 1]
       IN /\ th' = [th EXCEPT ![t] = Returned(l, r.resp, Nil, r.err)]
          /\ faulted' = (faulted \/ fault # "none")
    /\ UNCHANGED <<envVars, pinVars, lbVars, auxVars, heap, rt, mu, verified, swapped>>

(* ------------------------- specification ------------------------------- *)
\* a caller starts an operation
Call(t) == CallRoundTrip(t)

\* the running operation of t takes its next step
Run(t) ==
    \/ RLock(t)
    \/ ReadTransport(t)
    \/ RUnlock(t)
    \/ \E fault \in Faults : FirstAttempt(t, fault)
    \/ NewSecureClient(t)
    \/ Lock(t)
    \/ SetSecureClient(t)
    \/ SetTransport(t)
    \/ Unlock(t)
    \/ \E fault \in Faults : Retry(t, fault)
    \/ \E failStage \in 0..NumStages : VerifyReturn(t, failStage)

Env == \E c \in Certs, legitimate \in BOOLEAN : Rotate(c, legitimate)

Next == (\E t \in Procs : Call(t) \/ Run(t)) \/ Env

Spec == Init /\ [][Next]_vars

\* goroutines are scheduled fairly and every network round trip returns
FairSpec == Spec /\ \A t \in Procs : WF_vars(Run(t))

(* ------------- a SecureClient used directly, releases published -------- *)
\* the application holds UserSC
ScInit ==
    /\ ClientInit
    /\ uses = "SecureClient"
    /\ hs = NoHandshakes
    /\ lb = NoLoadBalancer
    /\ nc = [t \in Procs |-> NextClientIdle]
    /\ picks = <<>>
    /\ Quiet({})

\* a caller starts an operation of UserSC
ScCall(t) ==
    \/ CallVerify(t)
    \/ CallHTTPClient(t)
    \/ CallMakeRequest(t)

\* the outcomes of a verification of UserSC: success, a failure of the
\* first and of the last stage that return nil, and of the comparison, which
\* returns the cache
ScFailStages == {0, 1, NumStages - 1, NumStages}

\* the running operation of t takes its next step
ScRun(t) ==
    \/ HTTPClientCheck(t)
    \/ \E failStage \in ScFailStages : VerifyReturn(t, failStage)
    \/ HTTPClientBuild(t)
    \/ \E fault \in Faults : MakeRequestDo(t, fault)

ScEnv ==
    \/ \E c \in Certs, legitimate \in BOOLEAN : Rotate(c, legitimate)
    \/ \E r \in Releases : Publish(r)

ScNext == (\E t \in Procs : ScCall(t) \/ ScRun(t)) \/ ScEnv

ScSpec == ScInit /\ [][ScNext]_vars

(* ------------- the pinned client of createOpenAIClient ----------------- *)
\* values of c.groundTruth.CertFingerprint: the fingerprint of a certificate,
\* or a byte string of another length
CertFingerprints ==
    {Sum256(c) : c \in Certs}
        \cup {SubSeq(Sum256(c), 1, 1) : c \in Certs}
        \cup {Sum256(c) \o <<0>> : c \in Certs}

\* the chains a server may present, the empty one included
CertChains == UNION {[1..n -> Certs] : n \in 0..MaxChain}

\* createOpenAIClient has stored the ground truth; two connections are
\* about to be made through the client's transport
PinInit ==
    /\ ClientInit
    /\ uses = "Client"
    /\ hs \in [CertFingerprint : CertFingerprints,
               conn : [Conns -> {Conn(r, ca) : r \in CertChains,
                                              ca \in BOOLEAN}]]
    /\ lb = NoLoadBalancer
    /\ nc = [t \in Procs |-> NextClientIdle]
    /\ picks = <<>>
    /\ Quiet({})

\* the handshake of connection i; the request is written to the connection
\* only when the handshake succeeded
Handshake(i) ==
    /\ ~hs.conn[i].done
    /\ LET c == hs.conn[i]
           e == ClientHandshake(hs.CertFingerprint, c.rawCerts, c.caTrusted)
       IN hs' = [hs EXCEPT !.conn[i] =
                     [c EXCEPT !.done = TRUE, !.err = e, !.sent = (e = "nil")]]
    /\ UNCHANGED <<envVars, lbVars, auxVars, heap, rt, mu, th, verified, swapped,
                   faulted>>

PinNext == \E i \in Conns : Handshake(i)

PinSpec == PinInit /\ [][PinNext]_vars

(* ------------------------- LoadBalancer -------------------------------- *)
\* NewLoadBalancer over n enclaves, none of which fails to verify:
\* clients[i] is the client of enclaves[i], the counter is zero
NewLoadBalancer(n) == [clients |-> [i \in 1..n |-> i], counter |-> 0]

\* the values of the counter are 0..CounterLimit - 1
CounterLimit == 2 ^ CounterBits

\* atomic.AddUint64: the new value, which wraps at the width of the counter
AddUint64(val, delta) == (val + delta) % CounterLimit

\* the index computed from the counter without the offset
Index_NoOffset(count, n) == count % n

\* index := (count - 1) % uint64(len(lb.clients)); count - 1 is unsigned
\* and wraps to CounterLimit - 1 when count is 0
Index(count, n) == ((count + CounterLimit - 1) % CounterLimit) % n

LbInit ==
    /\ ClientInit
    /\ uses = "Client"
    /\ hs = NoHandshakes
    /\ \E n \in 1..MaxPool : lb = NewLoadBalancer(n)
    /\ nc = [t \in Procs |-> NextClientIdle]
    /\ picks = <<>>
    /\ Quiet({})

\* count := atomic.AddUint64(&lb.counter, 1)
NextClientAdd(t) ==
    /\ nc[t].pc = "idle"
    /\ Len(picks) + Cardinality({u \in Procs : nc[u].pc = "index"}) < MaxPicks
    /\ lb' = [lb EXCEPT !.counter = AddUint64(@, 1)]
    /\ nc' = [nc EXCEPT ![t] = [pc |-> "index", count |-> lb'.counter]]
    /\ UNCHANGED <<envVars, pinVars, auxVars, picks, heap, rt, mu, th, verified,
                   swapped, faulted>>

\* a NextClient that passes over the members through which a request has
\* failed
NextClientReturn_SkipFailed(t) ==
    /\ nc[t].pc = "index"
    /\ Len(lb.clients) > 0
    /\ LET n == Len(lb.clients)
           bad == {f.client : f \in failed}
           ok == {d \in 0..(n - 1) :
                    lb.clients[Index(nc[t].count + d, n) + 1] \notin bad}
           skip == IF ok = {} THEN 0
                   ELSE CHOOSE d \in ok : \A e \in ok : d <= e
       IN picks' = Append(picks,
                     [count |-> nc[t].count,
                      client |-> lb.clients[Index(nc[t].count + skip, n) + 1]])
    /\ nc' = [nc EXCEPT ![t] = NextClientIdle]
    /\ UNCHANGED <<envVars, pinVars, auxVars, lb, heap, rt, mu, th, verified,
                   swapped, faulted>>

\* index := (count - 1) % uint64(len(lb.clients)); return lb.clients[index]
NextClientReturn(t) ==
    /\ nc[t].pc = "index"
    /\ Len(lb.clients) > 0
    /\ LET index == Index(nc[t].count, Len(lb.clients))
       IN picks' = Append(picks, [count |-> nc[t].count,
                                  client |-> lb.clients[index + 1]])
    /\ nc' = [nc EXCEPT ![t] = NextClientIdle]
    /\ UNCHANGED <<envVars, pinVars, auxVars, lb, heap, rt, mu, th, verified,
                   swapped, faulted>>

LbNext == \E t \in Procs : NextClientAdd(t) \/ NextClientReturn(t)

\* (count - 1) % uint64(len(lb.clients)) with no client: the division by
\* zero panics and NextClient does not return
NextClientPanic(t) ==
    /\ nc[t].pc = "index"
    /\ Len(lb.clients) = 0
    /\ nc' = [nc EXCEPT ![t].pc = "panic: integer divide by zero"]
    /\ UNCHANGED <<envVars, pinVars, auxVars, lb, picks, heap, rt, mu, th,
                   verified, swapped, faulted>>

\* the LoadBalancer NewLoadBalancer has returned without error for a list
\* of n enclaves, the empty list included
PoolInit ==
    /\ ClientInit
    /\ uses = "Client"
    /\ hs = NoHandshakes
    /\ \E n \in 0..MaxPool : lb = NewLoadBalancer(n)
    /\ nc = [t \in Procs |-> NextClientIdle]
    /\ picks = <<>>
    /\ Quiet({})

\* the LoadBalancer when all but two of the values of the counter have been
\* handed out; the calls that got them have returned and are not recorded
WrapInit ==
    /\ ClientInit
    /\ uses = "Client"
    /\ hs = NoHandshakes
    /\ \E n \in 1..MaxPool :
          lb = [NewLoadBalancer(n) EXCEPT !.counter = CounterLimit - 2]
    /\ nc = [t \in Procs |-> NextClientIdle]
    /\ picks = <<>>
    /\ Quiet({})

WrapSpec == WrapInit /\ [][LbNext]_vars

PoolNext == LbNext \/ \E t \in Procs : NextClientPanic(t)

PoolSpec == PoolInit /\ [][PoolNext]_vars

LbSpec == LbInit /\ [][LbNext]_vars

(* ------------- requests through the members of a pool ----------------- *)
RotInit ==
    /\ ClientInit
    /\ uses = "Client"
    /\ hs = NoHandshakes
    /\ \E n \in 1..MaxPool : lb = NewLoadBalancer(n)
    /\ nc = [t \in Procs |-> NextClientIdle]
    /\ picks = <<>>
    /\ Quiet({"failed"})
    /\ failed = {}

\* a request of the caller through the member m, which NextClient has just
\* returned, fails; after: how many clients NextClient had returned by then
RequestFails(m) ==
    /\ Len(picks) > 0
    /\ picks[Len(picks)].client = m
    /\ \A f \in failed : f.client # m
    /\ failed' = failed \cup {[client |-> m, after |-> Len(picks)]}
    /\ UNCHANGED <<coreVars, pinVars, lbVars, client, ctor, req, vlog, vrun,
                   ws, store, now, ffi>>

RotNext == LbNext \/ \E m \in 1..MaxPool : RequestFails(m)

RotSpec == RotInit /\ [][RotNext]_vars

(* ------------------------- NewLoadBalancer ----------------------------- *)
\* NewClientWithParams(enclave, repo) when the verification of the enclave
\* meets failStage (0: it succeeds): createClientFromSecureClient wraps the
\* error of HTTPClient, which wraps the error of Verify; sc names the
\* SecureClient it constructs
NewClientWithParams(sc, enclave, repo, failStage) ==
    LET v == Verify(Nil, failStage, attested, LatestDigest)
    IN IF v.err # "nil"
       THEN [client |-> Nil, groundTruth |-> v.groundTruth,
             err |-> <<"failed to create HTTP client",
                       <<"failed to verify enclave", v.err>>>>]
       ELSE [client |-> NewClient(sc, enclave, repo),
             groundTruth |-> v.groundTruth, err |-> "nil"]

\* the i-th element of the argument enclaves: its verification will meet
\* failStage
Enclave(i, failStage) ==
    [Host |-> <<"host", i>>, Repo |-> <<"repo", i>>, failStage |-> failStage]

\* the arguments of NewLoadBalancer: up to MaxPool enclaves
EnclaveLists ==
    UNION {{[i \in 1..n |-> Enclave(i, f[i])] : f \in [1..n -> 0..NumStages]}
              : n \in 0..MaxPool}

\* clients := make([]*Client, len(enclaves)); i: the next iteration;
\* attempted: the members whose construction was started, in order
NewLoadBalancerCall(enclaves) ==
    [pc |-> "loop", enclaves |-> enclaves, i |-> 1,
     clients |-> [j \in 1..Len(enclaves) |-> Nil], attempted |-> <<>>,
     ret |-> [lb |-> Nil, err |-> "nil"]]

NlbInit ==
    /\ CoreInit
    /\ Quiet({"ctor"})
    /\ ctor \in {NewLoadBalancerCall(e) : e \in EnclaveLists}

\* an iteration that goes on to the next member when the construction of
\* one fails
BuildMember_SkipFailed ==
    /\ ctor.pc = "loop"
    /\ ctor.i <= Len(ctor.enclaves)
    /\ LET e == ctor.enclaves[ctor.i]
           r == NewClientWithParams(ctor.i, e.Host, e.Repo, e.failStage)
       IN ctor' = [ctor EXCEPT !.clients[ctor.i] = r.client,
                               !.i = @ + 1,
                               !.attempted = Append(@, ctor.i)]
    /\ UNCHANGED <<coreVars, pinVars, lbVars, client, failed, req, vlog,
                   vrun, ws, store, now, ffi>>

\* one iteration of the loop: the client of enclaves[i] is constructed;
\* when that fails NewLoadBalancer returns nil and the error
BuildMember ==
    /\ ctor.pc = "loop"
    /\ ctor.i <= Len(ctor.enclaves)
    /\ LET e == ctor.enclaves[ctor.i]
           r == NewClientWithParams(ctor.i, e.Host, e.Repo, e.failStage)
       IN ctor' = IF r.err # "nil"
                  THEN [ctor EXCEPT !.pc = "done",
                                    !.clients = <<>>,
                                    !.attempted = Append(@, ctor.i),
                                    !.ret = [lb |-> Nil, err |-> r.err]]
                  ELSE [ctor EXCEPT !.clients[ctor.i] = r.client,
                                    !.i = @ + 1,
                                    !.attempted = Append(@, ctor.i)]
    /\ UNCHANGED <<coreVars, pinVars, lbVars, client, failed, req, vlog,
                   vrun, ws, store, now, ffi>>

\* return &LoadBalancer{clients: clients}, nil
NewLoadBalancerReturn ==
    /\ ctor.pc = "loop"
    /\ ctor.i > Len(ctor.enclaves)
    /\ ctor' = [ctor EXCEPT !.pc = "done",
                            !.clients = <<>>,
                            !.ret = [lb |-> [clients |-> ctor.clients,
                                             counter |-> 0],
                                     err |-> "nil"]]
    /\ UNCHANGED <<coreVars, pinVars, lbVars, client, failed, req, vlog,
                   vrun, ws, store, now, ffi>>

NlbNext == BuildMember \/ NewLoadBalancerReturn

NlbSpec == NlbInit /\ [][NlbNext]_vars

(* ------------------------- makeRequest --------------------------------- *)
\* the fields of req.URL that makeRequest reads or writes, and the path
URLs ==
    [Scheme : {"", "http", "https"},
     Host : {"", ClientEnclave, "example.com"},
     Path : {"/", "/v1/chat/completions"}]

\* the enclave hosts a SecureClient is constructed for
EnclaveHosts == {ClientEnclave, "enclave.example.net"}

\* makeRequest overriding the target of every request
makeRequestURL_Always(url, enclave) ==
    [url EXCEPT !.Scheme = "https", !.Host = enclave]

\* if req.URL.Host == "" { req.URL.Scheme = "https"; req.URL.Host = s.enclave }
makeRequestURL(url, enclave) ==
    IF url.Host = "" THEN [url EXCEPT !.Scheme = "https", !.Host = enclave]
    ELSE url

\* s.makeRequest(req) is called on a SecureClient for the host enclave that
\* has not verified yet; the verification will meet failStage
MakeRequestCall(url, enclave, failStage) ==
    [pc |-> "called", url |-> url, enclave |-> enclave,
     failStage |-> failStage, sent |-> Nil, err |-> "nil"]

UrlInit ==
    /\ CoreInit
    /\ Quiet({"req"})
    /\ req \in {MakeRequestCall(u, e, f) :
                   u \in URLs, e \in EnclaveHosts, f \in 0..NumStages}

\* makeRequest: s.HTTPClient() verifies the enclave; when that fails the
\* call returns before it touches the request, otherwise the target is
\* filled in and httpClient.Do(req) sends the request
MakeRequest ==
    /\ req.pc = "called"
    /\ LET v == Verify(Nil, req.failStage, attested, LatestDigest)
       IN req' = IF v.err # "nil"
                 THEN [req EXCEPT !.pc = "done",
                                  !.err = <<"failed to verify enclave", v.err>>]
                 ELSE [req EXCEPT !.pc = "done",
                                  !.sent = makeRequestURL(req.url, req.enclave)]
    /\ UNCHANGED <<coreVars, pinVars, lbVars, client, ctor, failed, vlog,
                   vrun, ws, store, now, ffi>>

UrlNext == MakeRequest

UrlSpec == UrlInit /\ [][UrlNext]_vars

(* ------------- Verify called again and again --------------------------- *)
\* s.Verify() on UserSC from start to return; the log keeps what the call
\* returned, the cache it left, and how many rotations and publications
\* had happened
VerifyOnce(failStage) ==
    /\ Len(vlog) < MaxVerifies
    /\ LET r == Verify(SecureClient_GroundTruth(UserSC), failStage, attested,
                       LatestDigest)
       IN /\ heap' = [heap EXCEPT ![UserSC].groundTruth = r.groundTruth]
          /\ vlog' = Append(vlog, [gt |-> r.gt, err |-> r.err,
                                   cache |-> r.groundTruth,
                                   epoch |-> rotations + publications])
    /\ UNCHANGED <<envVars, pinVars, lbVars, rt, mu, th, verified, swapped,
                   faulted, client, ctor, failed, req, vrun, ws, store, now,
                   ffi>>

IdemNext ==
    \/ \E failStage \in 0..NumStages : VerifyOnce(failStage)
    \/ \E c \in Certs, legitimate \in BOOLEAN : Rotate(c, legitimate)
    \/ \E r \in Releases : Publish(r)

IdemSpec == ScInit /\ [][IdemNext]_vars

(* ------------------------- the Client constructor ---------------------- *)
\* the repositories a SecureClient is constructed for
Repos == {ClientRepo, "example/enclave-image"}

\* no object of the package exists yet; the enclave runs release r and
\* presents the certificate c its attestation is bound to
NothingBuilt(c, r) ==
    /\ uses = "Client"
    /\ release = r
    /\ publications = 0
    /\ presented = c
    /\ attested = c
    /\ rotations = 0
    /\ rt = [secureClient |-> 0, transport |-> Nil]
    /\ mu = [readers |-> {}, writer |-> 0]
    /\ th = [t \in Procs |-> Idle]
    /\ verified = {}
    /\ swapped = FALSE
    /\ faulted = FALSE
    /\ hs = NoHandshakes
    /\ lb = NoLoadBalancer
    /\ nc = [t \in Procs |-> NextClientIdle]
    /\ picks = <<>>

\* NewClientWithParams(enclave, repo) has constructed the SecureClient and
\* is about to call createClientFromSecureClient
CtorInit ==
    /\ \E c \in Certs, r \in Releases : NothingBuilt(c, r)
    /\ \E e \in EnclaveHosts, r \in Repos :
          heap = [i \in ScIds |->
                    IF i = ClientSC THEN NewSecureClientWithParams(e, r)
                    ELSE Nil]
    /\ Quiet({"client"})
    /\ client \in {ConstructorCall(f) : f \in 0..NumStages}

\* a constructor that returns the Client whatever the verification gave
CreateClient_IgnoreError ==
    /\ client.pc = "called"
    /\ LET sc == heap[ClientSC]
           r == NewClientWithParams(ClientSC, sc.enclave, sc.repo,
                                    client.failStage)
       IN /\ heap' = [heap EXCEPT ![ClientSC].groundTruth = r.groundTruth]
          /\ client' = ConstructorReturn(
                           client, NewClient(ClientSC, sc.enclave, sc.repo),
                           "nil")
          /\ rt' = IF r.err # "nil" THEN rt
                   ELSE [secureClient |-> ClientSC,
                         transport |-> TLSBoundRoundTripper(
                                           r.groundTruth.PublicKeyFP, ClientSC)]
          /\ verified' = IF r.err # "nil" THEN verified
                         ELSE verified \cup {r.groundTruth.PublicKeyFP}
    /\ UNCHANGED <<envVars, pinVars, lbVars, mu, th, swapped, faulted, ctor,
                   failed, req, vlog, vrun, ws, store, now, ffi>>

\* createClientFromSecureClient from start to return
CreateClient ==
    /\ client.pc = "called"
    /\ LET sc == heap[ClientSC]
           r == NewClientWithParams(ClientSC, sc.enclave, sc.repo,
                                    client.failStage)
       IN /\ heap' = [heap EXCEPT ![ClientSC].groundTruth = r.groundTruth]
          /\ client' = ConstructorReturn(client, r.client, r.err)
          /\ rt' = IF r.err # "nil" THEN rt
                   ELSE [secureClient |-> ClientSC,
                         transport |-> TLSBoundRoundTripper(
                                           r.groundTruth.PublicKeyFP, ClientSC)]
          /\ verified' = IF r.err # "nil" THEN verified
                         ELSE verified \cup {r.groundTruth.PublicKeyFP}
    /\ UNCHANGED <<envVars, pinVars, lbVars, mu, th, swapped, faulted, ctor,
                   failed, req, vlog, vrun, ws, store, now, ffi>>

CtorNext == CreateClient

CtorSpec == CtorInit /\ [][CtorNext]_vars

(* ------------- a Client for any enclave and repository ----------------- *)
\* c.Enclave(), c.Repo()
Client_Enclave == client.ptr.enclave
Client_Repo == client.ptr.repo

\* createClientFromSecureClient has returned the Client for a SecureClient
\* constructed for some host and repository
IdInit ==
    /\ uses = "Client"
    /\ release = 1
    /\ publications = 0
    /\ presented = 1
    /\ attested = 1
    /\ rotations = 0
    /\ \E e \in EnclaveHosts, r \in Repos :
          /\ heap = [i \in ScIds |->
                       IF i = ClientSC
                       THEN [enclave |-> e, repo |-> r,
                             groundTruth |->
                                 GroundTruth(Sum256(1), LatestDigest,
                                             MeasurementOf(LatestDigest))]
                       ELSE Nil]
          /\ client = ConstructorReturn(ConstructorCall(0),
                                        NewClient(ClientSC, e, r), "nil")
    /\ rt = [secureClient |-> ClientSC,
             transport |-> TLSBoundRoundTripper(Sum256(1), ClientSC)]
    /\ mu = [readers |-> {}, writer |-> 0]
    /\ th = [t \in Procs |-> Idle]
    /\ verified = {Sum256(1)}
    /\ swapped = FALSE
    /\ faulted = FALSE
    /\ hs = NoHandshakes
    /\ lb = NoLoadBalancer
    /\ nc = [t \in Procs |-> NextClientIdle]
    /\ picks = <<>>
    /\ Quiet({"client"})

\* c.Verify(): return c.secureClient.Verify()
CallClientVerify(t) ==
    /\ th[t].pc = "idle"
    /\ th[t].op = "none"
    /\ th' = [th EXCEPT ![t] = [Idle EXCEPT !.pc = "verifying", !.op = "Verify",
                                            !.s = client.ptr.secureClient]]
    /\ UNCHANGED <<envVars, pinVars, lbVars, auxVars, heap, rt, mu, verified,
                   swapped, faulted>>

IdNext == \E t \in Procs : Call(t) \/ Run(t) \/ CallClientVerify(t)

IdSpec == IdInit /\ [][IdNext]_vars

(* ------------------------- WebSearchStream ----------------------------- *)
\* a line is a sequence of pieces of text; the JSON events a data line
\* may carry
EventJSON == {"{1}", "{2}"}

\* the lines of a stream: empty, comment, text without the data prefix, the
\* end marker without the prefix, the end of the stream, the events, and a
\* data line whose payload is not JSON
Lines ==
    {<<>>, <<":", "x">>, <<"x">>, <<"[DONE]">>, <<"data: ", "[DONE]">>}
        \cup {<<"data: ", e>> : e \in EventJSON}
        \cup {<<"data: ", "x">>}

\* the bodies SimulateWebSearchStream is given: up to MaxLines lines
Bodies == UNION {[1..n -> Lines] : n \in 0..MaxLines}

\* strings.HasPrefix(line, prefix) for a prefix that is one piece
HasPrefix(line, prefix) == Len(line) > 0 /\ line[1] = prefix

\* a CutPrefix that takes a line without the prefix for data
CutPrefix_NoPrefixNeeded(line, prefix) ==
    IF HasPrefix(line, prefix) THEN [data |-> Tail(line), ok |-> TRUE]
    ELSE [data |-> line, ok |-> TRUE]

\* strings.CutPrefix(line, prefix)
CutPrefix(line, prefix) ==
    IF HasPrefix(line, prefix) THEN [data |-> Tail(line), ok |-> TRUE]
    ELSE [data |-> line, ok |-> FALSE]

\* json.Unmarshal([]byte(data), &event)
Unmarshal(data) ==
    IF Len(data) = 1 /\ data[1] \in EventJSON
    THEN [event |-> data[1], err |-> "nil"]
    ELSE [event |-> Nil, err |-> "invalid JSON"]

\* fmt.Errorf("failed to parse stream event: %w", err), for the one error
\* Unmarshal has
ParseError(err) ==
    IF err = "invalid JSON" THEN "failed to parse stream event: invalid JSON"
    ELSE err

\* the loop of Next from the line after pos: for s.scanner.Scan() { ... }
\* and what follows it; scanErr: what s.scanner.Err() reports when Scan
\* has returned false
RECURSIVE ScanLoop(_, _, _)
ScanLoop(lines, pos, scanErr) ==
    IF pos >= Len(lines)
    THEN [pos |-> pos, more |-> FALSE, current |-> Nil, closed |-> TRUE,
          err |-> scanErr]
    ELSE LET line == lines[pos + 1]
             cut == CutPrefix(line, "data: ")
         IN IF line = <<>> \/ HasPrefix(line, ":")
            THEN ScanLoop(lines, pos + 1, scanErr)
            ELSE IF ~cut.ok
            THEN ScanLoop(lines, pos + 1, scanErr)
            ELSE IF cut.data = <<"[DONE]">>
            THEN [pos |-> pos + 1, more |-> FALSE, current |-> Nil,
                  closed |-> TRUE, err |-> "nil"]
            ELSE LET u == Unmarshal(cut.data)
                 IN IF u.err # "nil"
                    THEN [pos |-> pos + 1, more |-> FALSE, current |-> Nil,
                          closed |-> FALSE,
                          err |-> ParseError(u.err)]
                    ELSE [pos |-> pos + 1, more |-> TRUE,
                          current |-> u.event, closed |-> FALSE,
                          err |-> "nil"]

\* NewWebSearchStream(body); events: what the consumer's loop
\* for stream.Next() { ... stream.Current() ... } has collected;
\* more: what the last call of Next returned; after: the calls of Next
\* made after a call that returned false
NewWebSearchStream(lines, scanErr) ==
    [lines |-> lines, scanErr |-> scanErr, pos |-> 0, current |-> Nil,
     err |-> "nil", closed |-> FALSE, events |-> <<>>, more |-> TRUE,
     after |-> 0]

StreamInit ==
    /\ CoreInit
    /\ Quiet({"ws"})
    /\ ws \in {NewWebSearchStream(b, e) :
                  b \in Bodies, e \in {"nil", "unexpected EOF"}}

\* a Next that goes on reading after an error
Exhausted_ClosedOnly(s) == s.closed

\* if s.closed || s.err != nil { return false }
Exhausted(s) == s.closed \/ s.err # "nil"

\* the stream s after s.Next() and, when it returned true, s.Current()
WebSearchStreamNext(s) ==
    LET r == IF Exhausted(s)
             THEN [pos |-> s.pos, more |-> FALSE, current |-> s.current,
                   closed |-> s.closed, err |-> s.err]
             ELSE ScanLoop(s.lines, s.pos, s.scanErr)
    IN [s EXCEPT
           !.pos = r.pos,
           !.more = r.more,
           !.current = IF r.more THEN r.current ELSE @,
           !.closed = r.closed,
           !.err = r.err,
           !.events = IF r.more THEN Append(@, r.current) ELSE @]

\* the consumer calls s.Next() and, when it returns true, s.Current()
StreamNext ==
    /\ ws.more
    /\ ws' = WebSearchStreamNext(ws)
    /\ UNCHANGED <<coreVars, pinVars, lbVars, client, ctor, failed, req,
                   vlog, vrun, store, now, ffi>>

StreamSpecNext == StreamNext

StreamSpec == StreamInit /\ [][StreamSpecNext]_vars

\* a consumer that calls s.Next() again after it has returned false
StreamNextAgain ==
    /\ ~ws.more
    /\ ws.after < MaxLines
    /\ ws' = [WebSearchStreamNext(ws) EXCEPT !.after = @ + 1]
    /\ UNCHANGED <<coreVars, pinVars, lbVars, client, ctor, failed, req,
                   vlog, vrun, store, now, ffi>>

\* s.Close(), at any point of the stream
StreamClose ==
    /\ ~ws.closed
    /\ ws' = [ws EXCEPT !.closed = TRUE]
    /\ UNCHANGED <<coreVars, pinVars, lbVars, client, ctor, failed, req,
                   vlog, vrun, store, now, ffi>>

StickyNext == StreamNext \/ StreamNextAgain \/ StreamClose

StickySpec == StreamInit /\ [][StickyNext]_vars

(* ------------------------- FFI request store --------------------------- *)
\* store: globalRequestStore.requests, a map from request ID to the pending
\* request (its index in ffi.reqs); now: what time.Now().UnixNano() reads;
\* ffi.reqs: the http.Request objects made so far, each by its header;
\* ffi.calls[t]: the FFI call goroutine t is in; ffi.ret: what the last call
\* that returned gave its caller
HeaderKeys == {"Authorization"}
HeaderValues == {"Bearer a"}
InitFunctions == {"InitPostRequest", "InitGetRequest"}

\* the request IDs a caller passes: the clock readings and 0, which is never
\* the ID of a request
RequestIDs == 0..MaxTime

\* http.NewRequest(method, url, body): the header of the new request;
\* sent: httpClient.Do has been called with the request
NewRequest == [header |-> <<>>, sent |-> FALSE]

\* rs.add(req): id := time.Now().UnixNano(); rs.requests[id] = ...; return id
requestStore_add(requests, r, clock) ==
    [id |-> clock,
     requests |-> [i \in DOMAIN requests \cup {clock} |->
                      IF i = clock THEN r ELSE requests[i]]]

\* rs.get(id)
requestStore_get(requests, id) ==
    IF id \in DOMAIN requests THEN [req |-> requests[id], exists |-> TRUE]
    ELSE [req |-> Nil, exists |-> FALSE]

\* rs.remove(id): delete(rs.requests, id)
requestStore_remove(requests, id) ==
    [i \in DOMAIN requests \ {id} |-> requests[i]]

\* the stages at which the verification of an executed request fails:
\* none and the last
ExecuteFailStages == {0, NumStages}

\* goroutine t is in no FFI call
FfiIdle == [pc |-> "idle"]

\* the request objects after a step: one that is neither in the store nor
\* held by a call can be reached by no caller and is garbage, its fields
\* are cleared
Collected(reqs, requests, calls) ==
    [r \in 1..Len(reqs) |->
        IF \/ \E i \in DOMAIN requests : requests[i] = r
           \/ \E u \in Procs : calls[u].pc = "got" /\ calls[u].req = r
        THEN reqs[r]
        ELSE NewRequest]

\* the function op, called with or returning the ID id, has returned err
FfiReturned(op, id, err) == [op |-> op, id |-> id, err |-> err]

FfiInit ==
    /\ CoreInit
    /\ Quiet({"ffi"})
    /\ store = <<>>
    /\ now = 1
    /\ ffi = [reqs |-> <<>>, calls |-> [t \in Procs |-> FfiIdle],
              ret |-> Nil]

\* time passes between two readings of the clock
ClockTick ==
    /\ now < MaxTime
    /\ now' = now + 1
    /\ UNCHANGED <<coreVars, pinVars, lbVars, client, ctor, failed, req,
                   vlog, vrun, ws, store, ffi>>

\* InitPostRequest and InitGetRequest: http.NewRequest fails on a URL that
\* does not parse, otherwise the request is added to the store under the
\* clock reading
InitRequest(t, op, urlParses) ==
    /\ ffi.calls[t].pc = "idle"
    /\ Len(ffi.reqs) < MaxRequests
    /\ IF ~urlParses
       THEN /\ ffi' = [ffi EXCEPT !.ret = FfiReturned(op, 0, "invalid URL")]
            /\ UNCHANGED store
       ELSE LET r == Len(ffi.reqs) + 1
                a == requestStore_add(store, r, now)
            IN /\ store' = a.requests
               /\ ffi' = [ffi EXCEPT
                             !.reqs = Collected(Append(@, NewRequest),
                                                a.requests, ffi.calls),
                             !.ret = FfiReturned(op, a.id, "nil")]
    /\ UNCHANGED <<coreVars, pinVars, lbVars, client, ctor, failed, req,
                   vlog, vrun, ws, now>>

\* AddHeader: globalRequestStore.get(requestID), then "request not found"
\* or req.Header.Set(key, value) on the request found. No lock is held
\* between the two; a request removed in between is one no caller can
\* reach any more, so the header is set in the same step
AddHeader(t, requestID, key, value) ==
    /\ ffi.calls[t].pc = "idle"
    /\ LET g == requestStore_get(store, requestID)
       IN ffi' = IF ~g.exists
                 THEN [ffi EXCEPT
                          !.ret = FfiReturned("AddHeader", requestID,
                                              "request not found")]
                 ELSE [ffi EXCEPT
                          !.reqs[g.req].header = (key :> value) @@ @,
                          !.ret = FfiReturned("AddHeader", requestID, "nil")]
    /\ UNCHANGED <<coreVars, pinVars, lbVars, client, ctor, failed, req,
                   vlog, vrun, ws, store, now>>

\* ExecuteRequest up to the return of globalRequestStore.get(requestID), and
\* its return when the request does not exist
ExecuteRequestGet(t, requestID) ==
    /\ ffi.calls[t].pc = "idle"
    /\ LET g == requestStore_get(store, requestID)
       IN ffi' = IF ~g.exists
                 THEN [ffi EXCEPT
                          !.ret = FfiReturned("ExecuteRequest", requestID,
                                              "request not found")]
                 ELSE [ffi EXCEPT
                          !.calls[t] = [pc |-> "got", op |-> "ExecuteRequest",
                                        id |-> requestID, req |-> g.req]]
    /\ UNCHANGED <<coreVars, pinVars, lbVars, client, ctor, failed, req,
                   vlog, vrun, ws, store, now>>

\* the error of s.makeRequest(req) when the verification meets failStage
\* and httpClient.Do fails or not; of "failed to verify enclave: %v" the
\* text before the colon
\* s.makeRequest(req) reaches httpClient.Do(req) when the verification
\* has met no failure
makeRequestSends(failStage) ==
    Verify(Nil, failStage, attested, LatestDigest).err = "nil"

makeRequestErr(failStage, doFails) ==
    LET v == Verify(Nil, failStage, attested, LatestDigest)
    IN IF v.err # "nil" THEN "failed to verify enclave"
       ELSE IF doFails THEN "connection refused"
       ELSE "nil"

\* ExecuteRequest keeping the request of a failed execution for a retry
ExecuteRequestReturn_KeepFailed(t, failStage, doFails) ==
    /\ ffi.calls[t].pc = "got"
    /\ ffi.calls[t].op = "ExecuteRequest"
    /\ LET c == ffi.calls[t]
           err == makeRequestErr(failStage, doFails)
           calls == [ffi.calls EXCEPT ![t] = FfiIdle]
           sent == [ffi.reqs EXCEPT
                       ![c.req].sent = @ \/ makeRequestSends(failStage)]
       IN /\ store' = IF err = "nil" THEN requestStore_remove(store, c.id)
                      ELSE store
          /\ ffi' = [reqs |-> Collected(sent, store', calls),
                     calls |-> calls,
                     ret |-> FfiReturned("ExecuteRequest", c.id, err)]
    /\ UNCHANGED <<coreVars, pinVars, lbVars, client, ctor, failed, req,
                   vlog, vrun, ws, now>>

\* return s.makeRequest(req), and the deferred
\* globalRequestStore.remove(requestID)
ExecuteRequestReturn(t, failStage, doFails) ==
    /\ ffi.calls[t].pc = "got"
    /\ ffi.calls[t].op = "ExecuteRequest"
    /\ LET c == ffi.calls[t]
           err == makeRequestErr(failStage, doFails)
           calls == [ffi.calls EXCEPT ![t] = FfiIdle]
           sent == [ffi.reqs EXCEPT
                       ![c.req].sent = @ \/ makeRequestSends(failStage)]
       IN /\ store' = requestStore_remove(store, c.id)
          /\ ffi' = [reqs |-> Collected(sent, store', calls),
                     calls |-> calls,
                     ret |-> FfiReturned("ExecuteRequest", c.id, err)]
    /\ UNCHANGED <<coreVars, pinVars, lbVars, client, ctor, failed, req,
                   vlog, vrun, ws, now>>

FfiNext ==
    \/ ClockTick
    \/ \E t \in Procs :
          \/ \E f \in InitFunctions, ok \in BOOLEAN : InitRequest(t, f, ok)
          \/ \E i \in RequestIDs, k \in HeaderKeys, v \in HeaderValues :
                AddHeader(t, i, k, v)
          \/ \E i \in RequestIDs : ExecuteRequestGet(t, i)
          \/ \E f \in ExecuteFailStages, d \in BOOLEAN :
                ExecuteRequestReturn(t, f, d)

FfiSpec == FfiInit /\ [][FfiNext]_vars

(* ------------------------- Verify, stage by stage ----------------------- *)
\* vrun: one call of s.Verify(); fails: the stages whose call returns an
\* error if it is made; cert, release: what the enclave and the repository
\* answer; groundTruth: s.groundTruth; executed: the stages run so far;
\* ret: the returned pair, Nil while the call is running
VerifyCall(cached, fails, cert, r) ==
    [cached |-> cached, groundTruth |-> cached, fails |-> fails,
     cert |-> cert, release |-> r, executed |-> <<>>, ret |-> Nil]

\* the ground truths an earlier Verify can have left in the cache
CachedGroundTruths ==
    {Nil} \cup {GroundTruth(Sum256(c), DigestOf(r), MeasurementOf(DigestOf(r))) :
                  c \in Certs, r \in Releases}

VerifyRunInit ==
    /\ CoreInit
    /\ Quiet({"vrun"})
    /\ vrun \in {VerifyCall(g, f, c, r) :
                    g \in CachedGroundTruths, f \in SUBSET (1..NumStages),
                    c \in Certs, r \in Releases}

\* the call has reached stage k: the k - 1 stages before it have run and
\* nothing was returned
AtStage(k) == vrun.ret = Nil /\ Len(vrun.executed) = k - 1

\* stage k of the first six: its call is made; on an error Verify returns
\* nil and the wrapped error
FetchOrVerify(k) ==
    /\ AtStage(k)
    /\ vrun' = [vrun EXCEPT
                   !.executed = Append(@, k),
                   !.ret = IF k \in vrun.fails
                           THEN [gt |-> Nil, err |-> StageError(k)]
                           ELSE Nil]
    /\ UNCHANGED <<coreVars, pinVars, lbVars, client, ctor, failed, req,
                   vlog, ws, store, now, ffi>>

\* digest, err := github.FetchLatestDigest(s.repo)
FetchLatestDigest == FetchOrVerify(1)

\* sigstoreBundle, err := github.FetchAttestationBundle(s.repo, digest)
FetchAttestationBundle == FetchOrVerify(2)

\* trustRootJSON, err := sigstore.FetchTrustRoot()
FetchTrustRoot == FetchOrVerify(3)

\* codeMeasurements, err := sigstore.VerifyAttestation(...)
VerifyAttestation == FetchOrVerify(4)

\* enclaveAttestation, err := attestation.Fetch(s.enclave)
AttestationFetch == FetchOrVerify(5)

\* verification, err := enclaveAttestation.Verify()
AttestationVerify == FetchOrVerify(6)

\* a comparison that stores the new ground truth whatever Equals returns
MeasurementsEqual_AlwaysCaches ==
    /\ AtStage(7)
    /\ LET new == GroundTruth(Sum256(vrun.cert), DigestOf(vrun.release),
                              MeasurementOf(DigestOf(vrun.release)))
       IN vrun' = [vrun EXCEPT
                      !.executed = Append(@, 7),
                      !.groundTruth = new,
                      !.ret = [gt |-> new,
                               err |-> IF 7 \in vrun.fails
                                       THEN StageError(7) ELSE "nil"]]
    /\ UNCHANGED <<coreVars, pinVars, lbVars, client, ctor, failed, req,
                   vlog, ws, store, now, ffi>>

\* err = codeMeasurements.Equals(verification.Measurement); the cache is
\* assigned if err == nil; return s.groundTruth, err
MeasurementsEqual ==
    /\ AtStage(7)
    /\ LET new == GroundTruth(Sum256(vrun.cert), DigestOf(vrun.release),
                              MeasurementOf(DigestOf(vrun.release)))
       IN vrun' = IF 7 \in vrun.fails
                  THEN [vrun EXCEPT
                           !.executed = Append(@, 7),
                           !.ret = [gt |-> vrun.groundTruth,
                                    err |-> StageError(7)]]
                  ELSE [vrun EXCEPT
                           !.executed = Append(@, 7),
                           !.groundTruth = new,
                           !.ret = [gt |-> new, err |-> "nil"]]
    /\ UNCHANGED <<coreVars, pinVars, lbVars, client, ctor, failed, req,
                   vlog, ws, store, now, ffi>>

VerifyRunNext ==
    \/ FetchLatestDigest
    \/ FetchAttestationBundle
    \/ FetchTrustRoot
    \/ VerifyAttestation
    \/ AttestationFetch
    \/ AttestationVerify
    \/ MeasurementsEqual

VerifyRunSpec == VerifyRunInit /\ [][VerifyRunNext]_vars

(* ------------- the OpenAI client constructors and the environment ------ *)
\* what os.LookupEnv gives for a variable: unset, set to the empty string,
\* or set to a value
EnvValues(values) ==
    {[exists |-> FALSE, value |-> ""]}
        \cup {[exists |-> TRUE, value |-> v] : v \in values \cup {""}}

\* the process environment
Environments ==
    [TINFOIL_ENCLAVE : EnvValues({"env-enclave.example.net"}),
     TINFOIL_REPO : EnvValues({"example/env-image"})]

\* getEnvDefault(key, defaultValue) where os.LookupEnv(key) gives looked
getEnvDefault(looked, defaultValue) ==
    IF ~looked.exists THEN defaultValue ELSE looked.value

\* the constructors that take enclave and repo: NewClientWithParams of
\* openai_client.go and the earlier NewClient that looks at the environment
\* only for an empty parameter
OpenAIConstructors == {"NewClientWithParams", "NewClient"}

\* fn(enclave, repo) is called in the environment env; its verification
\* will meet failStage
OpenAIConstructorCall(fn, enclave, repo, env, failStage) ==
    [pc |-> "called", fn |-> fn, enclave |-> enclave, repo |-> repo,
     env |-> env, failStage |-> failStage, use |-> Nil, verifies |-> 0,
     ptr |-> Nil, err |-> "nil"]

EnvInit ==
    /\ CoreInit
    /\ Quiet({"ctor"})
    /\ ctor \in {OpenAIConstructorCall(fn, e, r, env, f) :
                    fn \in OpenAIConstructors,
                    e \in EnclaveHosts \cup {""}, r \in Repos \cup {""},
                    env \in Environments, f \in {0, 1, NumStages}}

\* the check both constructors make on the values they will use
CheckSpecified(call, enclave, repo) ==
    IF enclave = "" \/ repo = ""
    THEN [call EXCEPT !.pc = "returned",
                      !.err = "tinfoil: enclave and repo must be specified"]
    ELSE [call EXCEPT !.pc = "specified",
                      !.use = [enclave |-> enclave, repo |-> repo]]

\* NewClientWithParams: enclave = getEnvDefault("TINFOIL_ENCLAVE", enclave);
\* repo = getEnvDefault("TINFOIL_REPO", repo); the check for empty values
NewClientWithParamsResolve ==
    /\ ctor.pc = "called"
    /\ ctor.fn = "NewClientWithParams"
    /\ ctor' = CheckSpecified(
                   ctor,
                   getEnvDefault(ctor.env.TINFOIL_ENCLAVE, ctor.enclave),
                   getEnvDefault(ctor.env.TINFOIL_REPO, ctor.repo))
    /\ UNCHANGED <<coreVars, pinVars, lbVars, client, failed, req, vlog,
                   vrun, ws, store, now, ffi>>

\* the earlier NewClient: if enclave == "" { enclave = getEnvDefault(...,
\* "") }, the same for repo; the check for empty values
NewClientResolve ==
    /\ ctor.pc = "called"
    /\ ctor.fn = "NewClient"
    /\ ctor' = CheckSpecified(
                   ctor,
                   IF ctor.enclave = ""
                   THEN getEnvDefault(ctor.env.TINFOIL_ENCLAVE, "")
                   ELSE ctor.enclave,
                   IF ctor.repo = ""
                   THEN getEnvDefault(ctor.env.TINFOIL_REPO, "")
                   ELSE ctor.repo)
    /\ UNCHANGED <<coreVars, pinVars, lbVars, client, failed, req, vlog,
                   vrun, ws, store, now, ffi>>

\* the rest of the constructor: the enclave is verified for the values in
\* use, and the client for them is returned or nil with the error
OpenAIClientBuild ==
    /\ ctor.pc = "specified"
    /\ LET v == Verify(Nil, ctor.failStage, attested, LatestDigest)
       IN ctor' = IF v.err # "nil"
                  THEN [ctor EXCEPT !.pc = "returned",
                                    !.verifies = @ + 1,
                                    !.err = "failed to create HTTP client"]
                  ELSE [ctor EXCEPT !.pc = "returned",
                                    !.verifies = @ + 1,
                                    !.ptr = ctor.use]
    /\ UNCHANGED <<coreVars, pinVars, lbVars, client, failed, req, vlog,
                   vrun, ws, store, now, ffi>>

EnvNext ==
    \/ NewClientWithParamsResolve
    \/ NewClientResolve
    \/ OpenAIClientBuild

EnvSpec == EnvInit /\ [][EnvNext]_vars

(* ------------------------- properties ---------------------------------- *)
\* the outcomes a round trip through transport tr can have in this state
Outcomes(tr) == {PinnedRoundTrip(tr, <<presented>>, f) : f \in Faults}

RoundTripDone(t) == th[t].op = "RoundTrip" /\ th[t].pc = "idle"

\* the call of t has re-verified successfully
Recovered(t) ==
    /\ th[t].op = "RoundTrip"
    /\ \/ th[t].pc \in {"rt_lock", "rt_set_sc", "rt_set_tr", "rt_unlock", "rt_retry"}
       \/ th[t].pc = "idle" /\ th[t].attempts = 2

\* the transport the round trip of t that is in progress goes through
UsedTransport(t) ==
    IF th[t].pc = "rt_attempt1" THEN th[t].transport ELSE th[t].http

C1_Pinned ==
    \A t \in Procs :
        /\ th[t].pc \in {"rt_attempt1", "rt_retry", "mr_do"} =>
              /\ UsedTransport(t) # Nil
              /\ UsedTransport(t).ExpectedPublicKey \in verified
        /\ (th[t].op = "makeRequest" /\ (th[t].pc = "mr_do" \/ th[t].attempts > 0)) =>
              heap[UserSC].groundTruth # Nil
        /\ th[t].ret.resp # Nil =>
              /\ Sum256(th[t].ret.resp.servedBy) \in verified
              /\ th[t].ret.err = "nil"

C1_AttemptStep ==
    \A t \in Procs :
        /\ th'[t].attempts # th[t].attempts =>
              th[t].pc \in {"rt_attempt1", "rt_retry", "mr_do"}
        /\ (th[t].ret.resp = Nil /\ th'[t].ret.resp # Nil) =>
              /\ th[t].pc \in {"rt_attempt1", "rt_retry", "mr_do"}
              /\ th'[t].ret.resp.servedBy = presented
              /\ Sum256(presented) = UsedTransport(t).ExpectedPublicKey

C2_ReverifyFailure ==
    [][\A t \in Procs :
          (th[t].op = "RoundTrip" /\ th[t].pc = "verifying" /\ th'[t].pc = "idle") =>
              /\ th'[t].ret = [NoRet EXCEPT !.err = th[t].err]
              /\ th[t].err \notin {"nil", "other"}
              /\ th'[t].attempts = 1
              /\ heap'[th[t].s].groundTruth = Nil
              /\ rt' = rt]_vars

\* a RoundTrip has returned the certificate mismatch of its first attempt
\* after a failed re-verification
C2_Witness ==
    \E t \in Procs :
        /\ RoundTripDone(t)
        /\ th[t].verifs = 1
        /\ th[t].attempts = 1
        /\ th[t].ret.resp = Nil
        /\ th[t].ret.err = "ErrCertMismatch"

C3_AtRetry ==
    \A t \in Procs :
        /\ th[t].pc = "rt_unlock" =>
              /\ rt.transport = th[t].http
              /\ rt.secureClient = th[t].s
        /\ th[t].pc \in {"rt_unlock", "rt_retry"} =>
              /\ th[t].http.ExpectedPublicKey = heap[th[t].s].groundTruth.PublicKeyFP
              /\ th[t].attempts = 1
              /\ th[t].verifs = 1
        /\ (RoundTripDone(t) /\ th[t].attempts = 2) => th[t].verifs = 1

C3_RetryStep ==
    \A t \in Procs :
        (th[t].pc = "rt_retry" /\ th'[t].pc # "rt_retry") =>
            /\ th'[t].pc = "idle"
            /\ \E r \in Outcomes(th[t].http) :
                  th'[t].ret = [NoRet EXCEPT !.resp = r.resp, !.err = r.err]
            /\ th'[t].attempts = 2
            /\ th'[t].verifs = 1
            /\ UNCHANGED <<rt, heap, verified, mu>>

\* C3: after a successful re-verification the new transport is the active
\* one when the lock is released, the request is retried once through the
\* new transport, and the outcome of the retry is returned as it is.
C3_ReverifySuccess == []C3_AtRetry /\ [][C3_RetryStep]_vars

\* the retry of a recovered RoundTrip has failed with a second certificate
\* mismatch, which was returned
C3_Witness ==
    \E t \in Procs :
        /\ RoundTripDone(t)
        /\ th[t].attempts = 2
        /\ th[t].ret.err = "ErrCertMismatch"

C4_FirstAttemptStep ==
    \A t \in Procs :
        (th[t].pc = "rt_attempt1" /\ th'[t].pc # "rt_attempt1") =>
            \/ /\ th'[t].pc = "rt_newsc"
               /\ th'[t].err \notin {"nil", "other"}
            \/ /\ th'[t].pc = "idle"
               /\ \E r \in Outcomes(th[t].transport) :
                     th'[t].ret = [NoRet EXCEPT !.resp = r.resp, !.err = r.err]
               /\ th'[t].ret.err \in {"nil", "other"}
               /\ th'[t].verifs = 0
               /\ th'[t].attempts = 1
               /\ UNCHANGED <<rt, heap, verified, mu, swapped>>

\* C4: a first attempt that succeeds or fails with an ordinary network
\* error is returned unchanged: no verification, no second round trip, no
\* change of rt or of any SecureClient.
C4_PassThrough == [][C4_FirstAttemptStep]_vars

\* a RoundTrip has returned the ordinary network error of its only attempt
C4_Witness ==
    \E t \in Procs :
        /\ RoundTripDone(t)
        /\ th[t].ret.err = "other"
        /\ th[t].attempts = 1
        /\ th[t].verifs = 0

C5_Bounded ==
    \A t \in Procs :
        th[t].op = "RoundTrip" =>
            /\ th[t].verifs <= 1
            /\ th[t].attempts <= 2
            /\ th[t].pc \in {"rt_rlock", "rt_read", "rt_runlock", "rt_attempt1"} =>
                  th[t].attempts = 0 /\ th[t].verifs = 0
            /\ th[t].pc \in {"rt_newsc", "verifying"} =>
                  /\ isCertificateError(th[t].err)
                  /\ th[t].attempts = 1
                  /\ th[t].verifs = 0
            /\ (Recovered(t) /\ th[t].pc # "idle") =>
                  th[t].attempts = 1 /\ th[t].verifs = 1
            /\ (th[t].pc = "idle" /\ th[t].verifs = 0) =>
                  /\ th[t].attempts = 1
                  /\ ~isCertificateError(th[t].ret.err)
            /\ (th[t].pc = "idle" /\ th[t].verifs = 1 /\ th[t].attempts = 1) =>
                  /\ th[t].ret.resp = Nil
                  /\ isCertificateError(th[t].ret.err)

C5_Terminates ==
    \A t \in Procs : (th[t].pc # "idle") ~> (th[t].pc = "idle")

\* C5: a RoundTrip verifies at most once, and once exactly when its first
\* attempt failed with a certificate error, makes at most two round trips,
\* and returns; when the re-verification fails it returns the first error
\* after one round trip.
C5_BoundedRecovery == []C5_Bounded /\ C5_Terminates

\* after a rotation without a new attestation two concurrent RoundTrips
\* have both returned the certificate mismatch of their first attempt
\* after one failed re-verification each
C5_Witness ==
    /\ presented # attested
    /\ \A t \in 1..2 :
          /\ RoundTripDone(t)
          /\ th[t].verifs = 1
          /\ th[t].attempts = 1
          /\ th[t].ret.err = "ErrCertMismatch"

\* the host has rotated once, to a certificate its attestation is bound to,
\* and no round trip has failed for another reason than the pin
RotatedOnce ==
    /\ rotations = 1
    /\ attested = presented
    /\ ~faulted

\* C6: after one legitimate rotation, a RoundTrip that recovers succeeds on
\* its retry, and a RoundTrip started after a completed swap captures the new
\* transport, succeeds on its first attempt and verifies nothing.
C6_AfterRotation ==
    RotatedOnce =>
        \A t \in Procs :
            th[t].op = "RoundTrip" =>
                /\ (th[t].pc = "idle" /\ th[t].attempts = 2) =>
                      /\ th[t].ret.err = "nil"
                      /\ th[t].ret.resp # Nil
                      /\ th[t].ret.resp.servedBy = presented
                /\ th[t].afterSwap =>
                      /\ th[t].verifs = 0
                      /\ th[t].pc \in {"rt_rlock", "rt_read", "rt_runlock",
                                       "rt_attempt1", "idle"}
                /\ (th[t].afterSwap /\ th[t].pc \in {"rt_runlock", "rt_attempt1"}) =>
                      /\ th[t].transport.ExpectedPublicKey = Sum256(presented)
                      /\ th[t].transport.builtBy # ClientSC
                /\ (th[t].afterSwap /\ th[t].pc = "idle") =>
                      /\ th[t].attempts = 1
                      /\ th[t].ret.err = "nil"
                      /\ th[t].ret.resp # Nil
                      /\ th[t].ret.resp.servedBy = presented

\* after the rotation one RoundTrip has recovered and a RoundTrip started
\* after its swap has succeeded at once
C6_Witness ==
    /\ RotatedOnce
    /\ \E t \in Procs :
          /\ RoundTripDone(t)
          /\ th[t].afterSwap
          /\ th[t].attempts = 1
          /\ th[t].ret.resp # Nil
    /\ \E t \in Procs :
          /\ RoundTripDone(t)
          /\ th[t].attempts = 2
          /\ th[t].ret.resp # Nil

\* C7: rt.transport always is a transport pinned to a verified fingerprint,
\* every RoundTrip captures such a transport, and whenever the write lock is
\* free rt.transport is the transport built by rt.secureClient.
C7_SwapAtomic ==
    /\ rt.transport # Nil
    /\ rt.transport.ExpectedPublicKey \in verified
    /\ heap[rt.secureClient] # Nil
    /\ mu.writer = 0 => rt.transport.builtBy = rt.secureClient
    /\ \A t \in Procs :
          /\ th[t].pc \in {"rt_read", "rt_runlock"} =>
                rt.transport.builtBy = rt.secureClient
          /\ th[t].pc \in {"rt_runlock", "rt_attempt1"} =>
                /\ th[t].transport # Nil
                /\ th[t].transport.ExpectedPublicKey \in verified
                /\ heap[th[t].transport.builtBy].groundTruth # Nil

\* one RoundTrip is half way through its swap while another waits to swap
C7_Witness ==
    \E t \in Procs, u \in Procs :
        /\ th[t].pc = "rt_set_tr"
        /\ th[u].pc = "rt_lock"
        /\ th[u].s # th[t].s

\* the lock of rt that t holds
Held(t) ==
    IF mu.writer = t THEN "w" ELSE IF t \in mu.readers THEN "r" ELSE "none"

\* the shared references the next step of t reads or writes
Accesses(t) ==
    CASE th[t].pc = "rt_read" -> {[loc |-> <<"rt.transport", 0>>, write |-> FALSE]}
      [] th[t].pc = "rt_newsc" -> {[loc |-> <<"rt.secureClient", 0>>, write |-> FALSE]}
      [] th[t].pc = "rt_set_sc" -> {[loc |-> <<"rt.secureClient", 0>>, write |-> TRUE]}
      [] th[t].pc = "rt_set_tr" -> {[loc |-> <<"rt.transport", 0>>, write |-> TRUE]}
      [] th[t].pc \in {"http_check", "http_build"} ->
            {[loc |-> <<"groundTruth", th[t].s>>, write |-> FALSE]}
      [] th[t].pc = "verifying" ->
            {[loc |-> <<"groundTruth", th[t].s>>, write |-> TRUE]}
      [] OTHER -> {}

Protected(t, a) ==
    IF a.write THEN Held(t) = "w" ELSE Held(t) \in {"r", "w"}

\* C8: no two goroutines are about to access the same shared reference, one
\* of them writing, unless both hold rt.mu in the mode of their access.
C8_LockDiscipline ==
    \A t \in Procs, u \in Procs :
        t # u =>
            \A a \in Accesses(t), b \in Accesses(u) :
                (a.loc = b.loc /\ (a.write \/ b.write)) =>
                    (Protected(t, a) /\ Protected(u, b))

InNetwork(t) == th[t].pc \in {"rt_attempt1", "verifying", "rt_retry", "mr_do"}

\* C9: a goroutine that is in a round trip or in a verification holds
\* rt.mu in no mode, so a RoundTrip that wants the read lock waits at most
\* for a writer that is between Lock and Unlock.
C9_NoLockAcrossNetwork ==
    \A t \in Procs :
        /\ InNetwork(t) => Held(t) = "none"
        /\ (th[t].pc = "rt_rlock" /\ ~ENABLED RLock(t)) =>
              /\ mu.writer # 0
              /\ th[mu.writer].pc \in {"rt_set_sc", "rt_set_tr", "rt_unlock"}

\* one RoundTrip is in its re-verification while another holds the read lock
C9_Witness ==
    \E t \in Procs, u \in Procs :
        /\ th[t].op = "RoundTrip"
        /\ th[t].pc = "verifying"
        /\ th[u].pc = "rt_read"
        /\ u \in mu.readers

\* the Verify of t returns with an error in this step
VerifyFails(t) ==
    /\ th[t].pc = "verifying"
    /\ th'[t].pc = "idle"
    /\ th[t].op = "Verify" => th'[t].ret.err # "nil"

\* the Verify of t returns without error in this step
VerifySucceeds(t) ==
    /\ th[t].pc = "verifying"
    /\ \/ th'[t].pc \in {"http_build", "rt_lock"}
       \/ th[t].op = "Verify" /\ th'[t].pc = "idle" /\ th'[t].ret.err = "nil"

C10_Step ==
    /\ \A t \in Procs : VerifyFails(t) => heap' = heap
    /\ \A s \in ScIds :
          (heap[s] # Nil /\ heap'[s].groundTruth # heap[s].groundTruth) =>
              \E t \in Procs : th[t].s = s /\ VerifySucceeds(t)

\* C10: a Verify that fails leaves the groundTruth of every SecureClient as
\* it was, and a groundTruth only changes in the step in which a Verify on
\* that SecureClient succeeds.
C10_FailedVerifyKeepsCache == [][C10_Step]_vars

\* a Verify on a SecureClient with a cached GroundTruth has failed at the
\* comparison of the measurements and the cache still holds the GroundTruth
C10_Witness ==
    \E t \in Procs :
        /\ th[t].op = "Verify"
        /\ th[t].pc = "idle"
        /\ th[t].ret.err = "measurement mismatch"
        /\ heap[UserSC].groundTruth # Nil
        /\ th[t].ret.gt = heap[UserSC].groundTruth

\* what a verification that succeeds in this state establishes
FreshGroundTruth ==
    GroundTruth(Sum256(attested), LatestDigest, MeasurementOf(LatestDigest))

C11_Step ==
    \A t \in Procs :
        (/\ th[t].op = "Verify"
         /\ th[t].pc = "verifying"
         /\ th'[t].pc = "idle"
         /\ th'[t].ret.err = "nil") =>
            /\ th[t].s = UserSC
            /\ th'[t].ret.gt = FreshGroundTruth
            /\ heap'[UserSC].groundTruth = th'[t].ret.gt
            /\ SecureClient_GroundTruth(UserSC)' = th'[t].ret.gt

InHTTPClient(t) == th[t].op \in {"HTTPClient", "makeRequest"}

C12_Step ==
    \A t \in Procs :
        /\ (th[t].pc = "http_check" /\ heap[th[t].s].groundTruth # Nil
                /\ th'[t] # th[t]) =>
              /\ th'[t].pc = "http_build"
              /\ th'[t].verifs = th[t].verifs
              /\ verified' = verified
        /\ (th[t].pc = "http_build" /\ th'[t] # th[t]) =>
              LET tr == IF th[t].op = "HTTPClient" THEN th'[t].ret.client
                        ELSE th'[t].http
              IN /\ tr # Nil
                 /\ ExpectedPublicKey(tr) = heap[th[t].s].groundTruth.PublicKeyFP
                 /\ th'[t].verifs = th[t].verifs
        /\ (th[t].pc # "verifying" /\ th'[t].pc = "verifying") =>
              \/ th[t].pc = "idle" /\ th'[t].op = "Verify"
              \/ th[t].pc = "http_check" /\ heap[th[t].s].groundTruth = Nil
              \/ th[t].pc = "rt_newsc"
        /\ th'[t].verifs # th[t].verifs =>
              th[t].pc = "verifying" /\ th'[t].verifs = th[t].verifs + 1
        /\ \A s \in ScIds :
              (heap[s] # Nil /\ heap[s].groundTruth # Nil) =>
                  heap'[s].groundTruth # Nil

\* C12: an HTTPClient call that finds a GroundTruth cached builds a client
\* pinned to the cached fingerprint without verifying, a cached GroundTruth
\* is never dropped, and a verification only starts in Verify(), in an
\* HTTPClient call that finds no GroundTruth, or in a rotation recovery.
C12_CachedNoOracle == [][C12_Step]_vars

\* two HTTPClient calls have returned clients pinned to the cached
\* fingerprint, the first after its own verification, the second without any
C12_Witness ==
    \E t \in Procs, u \in Procs :
        /\ th[t].op = "HTTPClient" /\ th[t].pc = "idle" /\ th[t].verifs = 1
        /\ th[u].op = "HTTPClient" /\ th[u].pc = "idle" /\ th[u].verifs = 0
        /\ th[t].ret.client # Nil
        /\ th[u].ret.client # Nil
        /\ ExpectedPublicKey(th[u].ret.client) = heap[UserSC].groundTruth.PublicKeyFP

C13_Verifs ==
    \A t \in Procs :
        InHTTPClient(t) =>
            /\ th[t].verifs <= 1
            /\ th[t].pc = "verifying" => th[t].verifs = 0
            /\ (th[t].pc = "idle" /\ th[t].ret.err # "nil" /\ th[t].op = "HTTPClient") =>
                  /\ th[t].verifs = 1
                  /\ th[t].ret.client = Nil
            /\ (th[t].pc = "idle" /\ th[t].op = "HTTPClient" /\ th[t].ret.err = "nil") =>
                  th[t].ret.client # Nil

C13_Step ==
    \A t \in Procs :
        /\ (InHTTPClient(t) /\ th[t].pc = "http_check"
                /\ heap[th[t].s].groundTruth = Nil /\ th'[t] # th[t]) =>
              th'[t].pc = "verifying"
        /\ (InHTTPClient(t) /\ th[t].pc = "verifying" /\ th'[t] # th[t]) =>
              \/ /\ th'[t].pc = "idle"
                 /\ th'[t].ret = [NoRet EXCEPT !.err = "failed to verify enclave"]
                 /\ th'[t].verifs = 1
                 /\ heap' = heap
              \/ /\ th'[t].pc = "http_build"
                 /\ th'[t].verifs = 1
                 /\ heap'[th[t].s].groundTruth = FreshGroundTruth
        /\ (th[t].op = "HTTPClient" /\ th[t].pc = "http_build" /\ th'[t] # th[t]) =>
              /\ th'[t].pc = "idle"
              /\ th'[t].ret.err = "nil"
              /\ th'[t].ret.client # Nil
              /\ ExpectedPublicKey(th'[t].ret.client)
                     = heap[th[t].s].groundTruth.PublicKeyFP

\* C13: an HTTPClient call that finds no GroundTruth runs Verify once; when
\* that fails it returns an error and no client and writes no cache, when it
\* succeeds the client it returns is pinned to the fingerprint of the
\* GroundTruth that is cached when the client is built.
C13_FirstUse == []C13_Verifs /\ [][C13_Step]_vars

\* one HTTPClient call has failed in its verification and returned no
\* client, a later one has verified and returned a pinned client
C13_Witness ==
    \E t \in Procs, u \in Procs :
        /\ th[t].op = "HTTPClient" /\ th[t].pc = "idle"
        /\ th[t].ret.err = "failed to verify enclave"
        /\ th[t].ret.client = Nil
        /\ th[u].op = "HTTPClient" /\ th[u].pc = "idle" /\ th[u].verifs = 1
        /\ th[u].ret.client # Nil
        /\ ExpectedPublicKey(th[u].ret.client) = heap[UserSC].groundTruth.PublicKeyFP

\* the transports that have been handed out and are still held
HeldTransports ==
    {th[t].ret.client : t \in Procs} \cup {th[t].http : t \in Procs}
        \cup {th[t].transport : t \in Procs} \cup {rt.transport}

C16_Step ==
    /\ \A t \in Procs :
          /\ (th[t].ret.client # Nil /\ th'[t].ret.client = th[t].ret.client) =>
                ExpectedPublicKey(th[t].ret.client)' = ExpectedPublicKey(th[t].ret.client)
          /\ (th[t].http # Nil /\ th'[t].http = th[t].http) =>
                ExpectedPublicKey(th[t].http)' = ExpectedPublicKey(th[t].http)
          /\ (th[t].transport # Nil /\ th'[t].transport = th[t].transport) =>
                ExpectedPublicKey(th[t].transport)' = ExpectedPublicKey(th[t].transport)
          /\ th[t].ret.client # Nil => th'[t].ret.client = th[t].ret.client
    /\ rt'.transport = rt.transport =>
          ExpectedPublicKey(rt.transport)' = ExpectedPublicKey(rt.transport)
    /\ \A tr \in HeldTransports :
          tr # Nil => ExpectedPublicKey(tr) = tr.ExpectedPublicKey

Complete(gt) ==
    /\ gt.PublicKeyFP \in verified
    /\ gt.Digest \in {DigestOf(r) : r \in Releases}
    /\ gt.Measurement = MeasurementOf(gt.Digest)

C17_Complete ==
    /\ \A s \in ScIds :
          (heap[s] # Nil /\ SecureClient_GroundTruth(s) # Nil) =>
              Complete(SecureClient_GroundTruth(s))
    /\ \A t \in Procs : th[t].ret.gt # Nil => Complete(th[t].ret.gt)

C17_Step ==
    /\ \A s \in ScIds :
          (heap[s] # Nil /\ heap'[s].groundTruth # heap[s].groundTruth) =>
              heap'[s].groundTruth = FreshGroundTruth
    /\ \A t \in Procs :
          th[t].ret.gt # Nil => th'[t].ret.gt = th[t].ret.gt

\* C17: a cached GroundTruth is nil or a complete GroundTruth, the cache
\* changes only by being set to the GroundTruth of the verification that
\* succeeds in that step, and a GroundTruth that was returned never changes.
C17_GroundTruthImmutable == []C17_Complete /\ [][C17_Step]_vars

\* a caller holds the GroundTruth of an earlier verification while the cache
\* holds the one of a later verification of another release
C17_Witness ==
    \E t \in Procs :
        /\ th[t].op = "Verify"
        /\ th[t].ret.gt # Nil
        /\ SecureClient_GroundTruth(UserSC) # Nil
        /\ th[t].ret.gt.Digest # SecureClient_GroundTruth(UserSC).Digest

\* C18: the reVerifyingTransport wraps the SecureClient its Client holds
\* (the one Client.Verify() runs on), and, outside a swap, the active
\* transport is pinned to the fingerprint that SecureClient has cached.
C18_SharedSecureClient ==
    /\ rt.secureClient = ClientSC
    /\ mu.writer = 0 =>
          ExpectedPublicKey(rt.transport) = heap[ClientSC].groundTruth.PublicKeyFP

\* the classes of error that take part in rotation recovery
RecoveryClasses == {"ErrCertMismatch", "UnknownAuthorityError", "HostnameError"}

\* C19: a RoundTrip starts a recovery only when its first attempt failed
\* with a certificate mismatch, an unknown authority or a hostname mismatch;
\* after a protocol-level TLS failure or any other error it returns.
C19_OnlyCertificateErrors ==
    [][\A t \in Procs :
          (th[t].pc = "rt_attempt1" /\ th'[t].pc # "rt_attempt1") =>
              \/ th'[t].pc = "rt_newsc" /\ th'[t].err \in RecoveryClasses
              \/ /\ th'[t].pc = "idle"
                 /\ th'[t].ret.err \notin RecoveryClasses
                 /\ th'[t].verifs = 0
                 /\ th'[t].attempts = 1]_vars

\* the first certificate of the chain has the pinned fingerprint
Matches(expected, rawCerts) ==
    Len(rawCerts) > 0 /\ Sum256(rawCerts[1]) = expected

\* C14: the pinned transport accepts a handshake if and only if the
\* SHA-256 fingerprint of the first certificate presented equals, byte for
\* byte, the expected fingerprint; a handshake with no certificate or with
\* any other fingerprint is rejected with the certificate-mismatch error and
\* the request is not sent.
C14_AcceptsIffFingerprint ==
    \A i \in Conns :
        hs.conn[i].done =>
            LET c == hs.conn[i]
            IN /\ (c.err = "nil") <=> Matches(hs.CertFingerprint, c.rawCerts)
               /\ c.err # "nil" => c.err = "ErrCertMismatch" /\ ~c.sent

\* C15: the accept/reject decision of the pinned transport is independent
\* of CA-chain validity: two handshakes whose first certificates stand in
\* the same relation to the pin (both match or both do not) get the same
\* decision, whether or not the chain verifies under the root CAs, so a
\* matching self-signed certificate is accepted.
C15_IndependentOfCA ==
    \A i, j \in Conns :
        (/\ hs.conn[i].done
         /\ hs.conn[j].done
         /\ Matches(hs.CertFingerprint, hs.conn[i].rawCerts)
                = Matches(hs.CertFingerprint, hs.conn[j].rawCerts))
            => (hs.conn[i].err = "nil") = (hs.conn[j].err = "nil")

\* the goroutines between the increment and the return of NextClient
InNextClient == {t \in Procs : nc[t].pc = "index"}

\* how many times NextClient has returned the client m
TimesReturned(m) ==
    Cardinality({j \in 1..Len(picks) : picks[j].client = m})

\* C20: for a pool of N >= 1 clients the i-th increment of the counter
\* returns clients[(i-1) mod N] (0-based), every increment gets a count of
\* its own, and once k*N calls have all returned, in whatever interleaving,
\* each member has been returned exactly k times; calls made one after the
\* other (the j-th return has count j) return the members in construction
\* order.
C20_RoundRobin ==
    LET N == Len(lb.clients)
        counts == {picks[j].count : j \in 1..Len(picks)}
                      \cup {nc[t].count : t \in InNextClient}
    IN /\ N >= 1 =>
            \A j \in 1..Len(picks) :
                picks[j].client = lb.clients[((picks[j].count - 1) % N) + 1]
       /\ counts = 1..lb.counter
       /\ Len(picks) + Cardinality(InNextClient) = lb.counter
       /\ (N >= 1 /\ InNextClient = {} /\ lb.counter % N = 0) =>
            \A m \in 1..N : TimesReturned(lb.clients[m]) = lb.counter \div N

\* two full rotations of a pool of three, in which a later increment
\* returned before an earlier one
C20_Witness ==
    /\ Len(lb.clients) = 3
    /\ lb.counter = 6
    /\ InNextClient = {}
    /\ \E j \in 1..(Len(picks) - 1) : picks[j].count > picks[j + 1].count
    /\ \A m \in 1..3 : TimesReturned(lb.clients[m]) = 2

\* the first member of the argument whose verification fails (0: none)
FirstFailing(enclaves) ==
    IF \A i \in 1..Len(enclaves) : enclaves[i].failStage = 0 THEN 0
    ELSE CHOOSE i \in 1..Len(enclaves) :
            /\ enclaves[i].failStage # 0
            /\ \A j \in 1..(i - 1) : enclaves[j].failStage = 0

\* C21: NewLoadBalancer is all-or-nothing. Members are constructed (and so
\* verified) in list order; when the construction of a member fails the
\* call returns that member's error and a nil pool, and no later member is
\* constructed; when none fails the pool returned holds exactly one verified
\* client per input pair, in input order.
C21_AllOrNothing ==
    ctor # Nil =>
        LET n == Len(ctor.enclaves)
            k == FirstFailing(ctor.enclaves)
            m == Len(ctor.attempted)
        IN /\ \A j \in 1..m : ctor.attempted[j] = j
           /\ m <= IF k = 0 THEN n ELSE k
           /\ (ctor.pc = "done" /\ k # 0) =>
                 /\ ctor.ret.lb = Nil
                 /\ ctor.clients = <<>>
                 /\ ctor.ret.err =
                       <<"failed to create HTTP client",
                         <<"failed to verify enclave",
                           StageError(ctor.enclaves[k].failStage)>>>>
                 /\ m = k
           /\ (ctor.pc = "done" /\ k = 0) =>
                 /\ ctor.ret.err = "nil"
                 /\ ctor.ret.lb # Nil
                 /\ Len(ctor.ret.lb.clients) = n
                 /\ m = n
                 /\ \A i \in 1..n :
                       /\ ctor.ret.lb.clients[i] # Nil
                       /\ ctor.ret.lb.clients[i].enclave = ctor.enclaves[i].Host
                       /\ ctor.ret.lb.clients[i].repo = ctor.enclaves[i].Repo

\* the second of three members failed after the first was built: no pool
\* was returned and the third was not constructed
C21_Witness ==
    /\ ctor # Nil
    /\ ctor.pc = "done"
    /\ Len(ctor.enclaves) = 3
    /\ FirstFailing(ctor.enclaves) = 2
    /\ ctor.attempted = <<1, 2>>
    /\ ctor.ret.lb = Nil

C22_Step ==
    /\ lb'.clients = lb.clients
    /\ \A t \in Procs :
          (nc[t].pc = "idle" /\ nc'[t].pc = "index") =>
              /\ lb'.counter = lb.counter + 1
              /\ nc'[t].count = lb'.counter
              /\ \A u \in Procs \ {t} : nc'[u] = nc[u]
              /\ UNCHANGED <<picks, failed>>
    /\ \A t \in Procs :
          (nc[t].pc = "index" /\ nc'[t].pc = "idle") =>
              /\ UNCHANGED <<lb, failed>>
              /\ Len(picks') = Len(picks) + 1
              /\ picks'[Len(picks')].client =
                    NewLoadBalancer(Len(lb.clients)).clients[
                        ((nc[t].count - 1) % Len(lb.clients)) + 1]
    /\ failed' # failed => UNCHANGED <<lb, nc, picks>>

\* C22: selection is purely positional. A step of NextClient changes only
\* the counter (and the caller's locals), no step changes the member list,
\* and the member NextClient returns is the one at the position its count
\* gives in the list as constructed, whether or not a request through that
\* member has failed before; a failing request changes nothing of the pool.
C22_Positional == [][C22_Step]_vars

\* NextClient has returned a member after a request through that member
\* had failed
C22_Witness ==
    \E f \in failed :
        \E j \in (f.after + 1)..Len(picks) : picks[j].client = f.client

\* C23: makeRequest fills in the target exactly when the URL of the request
\* has no host: the host becomes the enclave host of the client and the
\* scheme becomes https; a request whose URL has a host is sent with
\* scheme, host and path as given. The path is never changed.
C23_FillsRelative ==
    (req # Nil /\ req.pc = "done" /\ req.sent # Nil) =>
        /\ req.sent.Path = req.url.Path
        /\ req.url.Host = "" =>
              req.sent.Host = req.enclave /\ req.sent.Scheme = "https"
        /\ req.url.Host # "" =>
              req.sent.Host = req.url.Host /\ req.sent.Scheme = req.url.Scheme

\* a request with a host other than the enclave and the scheme http was
\* sent as given
C23_Witness ==
    /\ req # Nil
    /\ req.pc = "done"
    /\ req.sent # Nil
    /\ req.url.Host = "example.com"
    /\ req.url.Scheme = "http"
    /\ req.enclave = ClientEnclave
    /\ req.sent = req.url

C25_VerifiedOrNil ==
    client.pc = "returned" =>
        /\ client.ptr # Nil <=> client.failStage = 0
        /\ client.ptr # Nil =>
              /\ client.err = "nil"
              /\ SecureClient_GroundTruth(client.ptr.secureClient) # Nil
              /\ SecureClient_GroundTruth(client.ptr.secureClient).PublicKeyFP
                    = Sum256(attested)
              /\ rt.transport # Nil
              /\ ExpectedPublicKey(rt.transport) = Sum256(attested)
        /\ client.ptr = Nil =>
              /\ client.err # "nil"
              /\ rt.transport = Nil
              /\ verified = {}

\* the constructor returned nil and an error because the measurements of
\* the enclave and of the release did not match
C25_Witness ==
    /\ client.pc = "returned"
    /\ client.failStage = 7
    /\ client.ptr = Nil
    /\ client.err # "nil"
    /\ heap[ClientSC].enclave # ClientEnclave

C26_Fixed ==
    /\ Client_Enclave = heap[ClientSC].enclave
    /\ Client_Repo = heap[ClientSC].repo
    /\ \A i \in ScIds :
          heap[i] # Nil =>
              heap[i].enclave = Client_Enclave /\ heap[i].repo = Client_Repo
    /\ \A t \in Procs :
          th[t].pc = "verifying" =>
              /\ heap[th[t].s].enclave = Client_Enclave
              /\ heap[th[t].s].repo = Client_Repo

C26_Step ==
    /\ Client_Enclave' = Client_Enclave
    /\ Client_Repo' = Client_Repo
    /\ \A i \in ScIds :
          heap[i] # Nil =>
              /\ heap'[i] # Nil
              /\ heap'[i].enclave = heap[i].enclave
              /\ heap'[i].repo = heap[i].repo

\* C26: the enclave host and the repository of a client never change.
\* Through Verify calls, requests and recoveries, every SecureClient that
\* exists, and so every verification that runs, has the host and repository
\* the Client was constructed with, no step changes them, and
\* Client.Enclave() and Client.Repo() return those values.
C26_IdentityImmutable == []C26_Fixed /\ [][C26_Step]_vars

\* a recovery has replaced the SecureClient of the transport of a Client
\* constructed for another host and repository than the default ones, and
\* Client.Verify has run since
C26_Witness ==
    /\ Client_Enclave # ClientEnclave
    /\ Client_Repo # ClientRepo
    /\ rt.secureClient # ClientSC
    /\ heap[rt.secureClient].enclave = Client_Enclave
    /\ \E t \in Procs :
          th[t].op = "Verify" /\ th[t].pc = "idle" /\ th[t].ret.err = "nil"

\* the line is a data line with the end marker
IsDoneLine(line) == line = <<"data: ", "[DONE]">>

\* the line is a data line with a JSON event
IsEventLine(line) ==
    Len(line) = 2 /\ line[1] = "data: " /\ line[2] \in EventJSON

\* the line is a data line that carries neither the end marker nor JSON
IsBadDataLine(line) ==
    Len(line) >= 1 /\ line[1] = "data: " /\ ~IsDoneLine(line)
        /\ ~IsEventLine(line)

\* the events of the event lines among the first n lines, in stream order
RECURSIVE EventsOf(_, _)
EventsOf(lines, n) ==
    IF n = 0 THEN <<>>
    ELSE IF IsEventLine(lines[n])
    THEN Append(EventsOf(lines, n - 1), lines[n][2])
    ELSE EventsOf(lines, n - 1)

\* the number of lines before the first line that satisfies Stop
\* (all of them when there is none)
Before(lines, Stop(_)) ==
    IF \A i \in 1..Len(lines) : ~Stop(lines[i]) THEN Len(lines)
    ELSE (CHOOSE i \in 1..Len(lines) :
              Stop(lines[i]) /\ \A j \in 1..(i - 1) : ~Stop(lines[j])) - 1

\* the last call of Next has returned false
StreamOver == ws # Nil /\ ~ws.more

IsStopLine(line) == IsDoneLine(line) \/ IsBadDataLine(line)

InitReturns == Len(ffi'.reqs) = Len(ffi.reqs) + 1

\* C28: the ID InitPostRequest and InitGetRequest return is different from
\* the ID of every request pending in the store, and every request that was
\* pending is still pending under its ID: registering a request never
\* replaces a pending one.
C28_Step ==
    InitReturns =>
        /\ ffi'.ret.id \notin DOMAIN store
        /\ \A i \in DOMAIN store : i \in DOMAIN store' /\ store'[i] = store[i]

C28_UniqueID == [][C28_Step]_vars

\* AddHeader returns to its caller
AddHeaderReturns ==
    /\ ffi'.ret # ffi.ret
    /\ ffi'.ret.op = "AddHeader"

\* ExecuteRequest returns to its caller before it has executed anything
ExecuteRefuses ==
    /\ ffi'.ret # ffi.ret
    /\ ffi'.ret.op = "ExecuteRequest"
    /\ ffi'.calls = ffi.calls

\* goroutine t has found the request of its ExecuteRequest
LookupSucceeds(t) ==
    /\ ffi.calls[t].pc = "idle"
    /\ ffi'.calls[t].pc = "got"

\* goroutine t returns from the execution of a request it had found
ExecuteReturns(t) ==
    /\ ffi.calls[t].pc = "got"
    /\ ffi.calls[t].op = "ExecuteRequest"
    /\ ffi'.calls[t].pc = "idle"

C29_Step ==
    /\ AddHeaderReturns =>
          /\ store' = store
          /\ IF ffi'.ret.id \in DOMAIN store
             THEN /\ ffi'.ret.err = "nil"
                  /\ \A r \in 1..Len(ffi.reqs) :
                        r # store[ffi'.ret.id] => ffi'.reqs[r] = ffi.reqs[r]
             ELSE /\ ffi'.ret.err = "request not found"
                  /\ ffi'.reqs = ffi.reqs
    /\ ExecuteRefuses =>
          /\ ffi'.ret.id \notin DOMAIN store
          /\ ffi'.ret.err = "request not found"
          /\ store' = store
          /\ ffi'.reqs = ffi.reqs
    /\ \A t \in Procs :
          /\ LookupSucceeds(t) =>
                /\ ffi'.calls[t].id \in DOMAIN store
                /\ ffi'.calls[t].req = store[ffi'.calls[t].id]
                /\ store' = store
                /\ ffi'.ret = ffi.ret
          /\ ExecuteReturns(t) =>
                /\ ffi'.ret.op = "ExecuteRequest"
                /\ ffi'.ret.id = ffi.calls[t].id
                /\ ffi.calls[t].id \notin DOMAIN store'
                /\ DOMAIN store' = DOMAIN store \ {ffi.calls[t].id}
                /\ \A i \in DOMAIN store' : store'[i] = store[i]

\* C29: AddHeader and ExecuteRequest with an ID that is not pending return
\* "request not found" and leave the store and the requests unchanged, and
\* they go on only with an ID that is pending; when ExecuteRequest returns
\* for an ID it had found, with or without an error, that ID is no longer
\* pending, so a call that looks it up afterwards gets "request not found",
\* and every other ID is pending as before with the same request.
C29_Lifecycle == [][C29_Step]_vars

\* an ExecuteRequest has returned the failure of the verification of the
\* enclave: its ID is no longer pending, and another request still is
C29_Witness ==
    /\ ffi # Nil
    /\ ffi.ret # Nil
    /\ ffi.ret.op = "ExecuteRequest"
    /\ ffi.ret.err = "failed to verify enclave"
    /\ ffi.ret.id \notin DOMAIN store
    /\ DOMAIN store # {}

\* the first stage that fails if the stages run in order (0: none)
FirstFailingStage(fails) ==
    IF fails = {} THEN 0
    ELSE CHOOSE k \in fails : \A j \in fails : k <= j

\* C30: the stages of Verify run in the order of the code, a stage runs only
\* if every stage before it has passed, the call returns at the first
\* failing stage with that stage's error and the cache as it was, and the
\* cache is written only when all seven stages have run and passed; the
\* returned pair is the one of the call taken as a whole.
C30_StageOrder ==
    vrun # Nil =>
        LET n == Len(vrun.executed)
            first == FirstFailingStage(vrun.fails)
        IN /\ \A i \in 1..n : vrun.executed[i] = i
           /\ \A i \in 1..(n - 1) : i \notin vrun.fails
           /\ vrun.ret = Nil => n < NumStages /\ n \notin vrun.fails
           /\ vrun.groundTruth # vrun.cached =>
                 n = NumStages /\ vrun.fails = {}
           /\ vrun.ret # Nil =>
                 /\ n = IF first = 0 THEN NumStages ELSE first
                 /\ vrun.ret.err = StageError(first)
                 /\ LET v == Verify(vrun.cached, first, vrun.cert,
                                     DigestOf(vrun.release))
                    IN /\ vrun.groundTruth = v.groundTruth
                       /\ vrun.ret.gt = v.gt
                       /\ vrun.ret.err = v.err

\* a call on a SecureClient with a cached ground truth returned at the
\* fourth stage although the sixth would have failed too
C30_Witness ==
    /\ vrun # Nil
    /\ vrun.ret # Nil
    /\ vrun.cached # Nil
    /\ vrun.fails = {4, 6}
    /\ vrun.executed = <<1, 2, 3, 4>>
    /\ vrun.ret.err = StageError(4)
    /\ vrun.groundTruth = vrun.cached

\* the value the caller is entitled to: the parameter, or for an empty
\* parameter the environment variable if set
Entitled(param, looked) ==
    IF param # "" THEN param
    ELSE IF looked.exists THEN looked.value
    ELSE ""

\* C31: NewClientWithParams uses the parameter it is given and looks at the
\* environment only for an empty parameter; when a value is still empty it
\* returns "tinfoil: enclave and repo must be specified" and verifies
\* nothing.
C31_ExplicitWins ==
    (ctor # Nil /\ ctor.pc # "called" /\ ctor.fn = "NewClientWithParams") =>
        LET e == Entitled(ctor.enclave, ctor.env.TINFOIL_ENCLAVE)
            r == Entitled(ctor.repo, ctor.env.TINFOIL_REPO)
        IN IF e = "" \/ r = ""
           THEN /\ ctor.pc = "returned"
                /\ ctor.err = "tinfoil: enclave and repo must be specified"
                /\ ctor.verifies = 0
           ELSE /\ ctor.use = [enclave |-> e, repo |-> r]
                /\ ctor.err # "tinfoil: enclave and repo must be specified"

\* C32: Verify returns a GroundTruth that is not nil if and only if it
\* returns no error.
C32_GroundTruthIffNoError ==
    \A t \in Procs :
        (th[t].op = "Verify" /\ th[t].pc = "idle") =>
            (th[t].ret.gt # Nil <=> th[t].ret.err = "nil")

\* the fingerprint in the GroundTruth the recovery of t has verified
RecoveryPin(t) == heap[NewScId(t)].groundTruth.PublicKeyFP

\* every goroutine is outside RoundTrip, and two of them have recovered
\* with different GroundTruths
RecoveriesFinished ==
    /\ \A t \in Procs : th[t].pc = "idle"
    /\ \E t, u \in Procs :
          /\ RoundTripDone(t) /\ Recovered(t)
          /\ RoundTripDone(u) /\ Recovered(u)
          /\ RecoveryPin(t) # RecoveryPin(u)

\* C33: when concurrent recoveries have verified different GroundTruths and
\* all have finished, the active transport is pinned to the GroundTruth of
\* the verification that completed last. While the attestation has changed
\* at most once, a verification that gave the fingerprint of the present
\* attestation completed after every verification that gave another one, so
\* if a recovery has verified the present attestation, the pin is its
\* fingerprint.
C33_LastVerificationWins ==
    (/\ rotations <= 1
     /\ RecoveriesFinished
     /\ \E t \in Procs :
           RoundTripDone(t) /\ Recovered(t)
               /\ RecoveryPin(t) = Sum256(attested)) =>
        ExpectedPublicKey(rt.transport) = Sum256(attested)

\* C34: on every LoadBalancer that NewLoadBalancer returns without error,
\* the one for the empty list included, NextClient returns, and what it
\* returns is one of the clients built at construction.
C34_Usable ==
    /\ \A t \in Procs : nc[t].pc \in {"idle", "index"}
    /\ \A j \in 1..Len(picks) :
          \E i \in 1..Len(lb.clients) : picks[j].client = lb.clients[i]

\* the member after m in the rotation order of a pool of n
SuccessorMember(m, n) == (m % n) + 1

ExecuteSends(t) ==
    /\ ExecuteReturns(t)
    /\ ffi'.ret.err \in {"nil", "connection refused"}

\* C36: a pending request is executed at most once: however concurrent
\* ExecuteRequest calls with its ID interleave, a call sends the request
\* only if no call has sent it before.
C36_Step ==
    \A t \in Procs :
        ExecuteSends(t) => ~ffi.reqs[ffi.calls[t].req].sent

C36_AtMostOnce == [][C36_Step]_vars

\* the value of Err() is nil, a parse error or the reader's error
ErrIsParseOrReadError ==
    \/ ws.err = "nil"
    \/ ws.err = ParseError("invalid JSON")
    \/ ws.err = ws.scanErr

\* Current() is the last event the consumer was given
CurrentIsLastDelivered ==
    ws.current = IF ws.events = <<>> THEN Nil
                 ELSE ws.events[Len(ws.events)]

\* a step taken after a call of Next has returned false
C37_Step ==
    StreamOver =>
        /\ ~ws'.more
        /\ ws'.events = ws.events
        /\ ws'.pos = ws.pos
        /\ ws'.err = ws.err
        /\ ws'.current = ws.current

\* C37: termination of a WebSearchStream is sticky: once Next() has
\* returned false (after [DONE], the end of the input, a malformed data
\* payload or Close()), every later Next() returns false, no line after
\* that point is delivered as an event, Err() keeps its value, which is
\* non-nil only for a malformed payload or a read error, and Current()
\* keeps returning the last event that was delivered.
C37_Sticky ==
    /\ [][C37_Step]_vars
    /\ [](StreamOver => ErrIsParseOrReadError /\ CurrentIsLastDelivered)

\* Next has been called again after a malformed payload that is followed
\* by a well-formed event line; the stream was not closed, the error and
\* the one event delivered before it are still there
C37_Witness ==
    /\ StreamOver
    /\ ws.after > 0
    /\ ~ws.closed
    /\ Len(ws.lines) = 3
    /\ IsEventLine(ws.lines[1])
    /\ IsBadDataLine(ws.lines[2])
    /\ IsEventLine(ws.lines[3])
    /\ ws.err = ParseError("invalid JSON")
    /\ ws.events = <<ws.lines[1][2]>>
    /\ ws.current = ws.lines[1][2]

====
